---------------------------- MODULE Spec2Model ----------------------------
(***************************************************************************)
(* A model of the annotation pipeline of PolyglotDB:                       *)
(*   src/annograph/io/helper.py  (Attribute, BaseAnnotation, Annotation,   *)
(*                                AnnotationType, DiscourseData,           *)
(*                                parse_transcription, data_to_discourse)  *)
(*   src/polyglotdb/corpus.py    (CorpusContext)                           *)
(*                                                                         *)
(* Python values are tagged records [t |-> <type>, v |-> <payload>];       *)
(* Python strings are sequences of one-character strings, so that          *)
(* splitting, scanning and parsing are computed and not assumed.           *)
(* A raised exception is the value of the variable `raised`.               *)
(***************************************************************************)
EXTENDS Integers, Sequences, FiniteSets, TLC

VARIABLES
    component,      \* which part of the program the behaviour exercises
    raised,         \* name of the exception the last call raised, or "none"
    \* ---- Attribute (helper.py 10-209)
    attribute,      \* the Attribute object: [att_type, range]
    created_type,   \* the att_type the Attribute was constructed with
    updates,        \* the values passed to update_range so far, in order
    \* ---- parse_transcription (helper.py 491-565)
    tier,           \* the AnnotationType handed to parse_transcription
    text,           \* the raw tier string handed to parse_transcription
    transcription,  \* outcome of parse_transcription(text, tier)
    retokenized,    \* outcome of parsing the joined labels of `transcription`
    \* ---- DiscourseData (helper.py 369-481)
    data,           \* self.data: the tiers in insertion order
    order,          \* process_order: the local list `order`
    pc,             \* process_order: where the call stands
    cursor,         \* process_order: position of the for loop in self.data
    placed,         \* process_order: the current pass has appended a tier
    stalled,        \* process_order: a pass has ended that appended no tier
                    \*   while non-base tiers were missing from `order`
    source,         \* collapse_speakers: self.data when the call was made
    collapsed,      \* collapse_speakers has been called
    \* ---- data_to_discourse (helper.py 591-645)
    wordtokens,     \* the keyword arguments of each WordToken(...) call
    converted,      \* data_to_discourse has been called
    \* ---- AnnotationType.add (helper.py 317-322)
    added_tier,     \* the AnnotationType: [characters, list]
    passed,         \* the add calls made so far: [save, annotations, before]
    \* ---- CorpusContext (corpus.py 37-311)
    context,        \* self: [relationship_types, is_timed, hierarchy]
    graph,          \* the statements executed on the graph store, in order
    sql,            \* the relational store: [session, db]
    variables,      \* the pickled file 'variables' of the corpus, or None
    threads,        \* the calls in progress: thread -> [pc, data, ...]
    journal         \* the operations completed on the context, in order

attrVars == <<attribute, created_type, updates>>
parseVars == <<tier, text, transcription, retokenized>>
orderVars == <<order, pc, cursor, placed, stalled>>
collapseVars == <<source, collapsed>>
discourseVars == <<wordtokens, converted>>
addVars == <<added_tier, passed>>
corpusVars == <<context, graph, sql, variables, threads, journal>>
vars == <<component, raised, attrVars, parseVars, data, orderVars,
          collapseVars, discourseVars, addVars, corpusVars>>

(***************************************************************************)
(* Bounds of the model.                                                    *)
(***************************************************************************)
MaxUpdates == 3     \* update_range calls per Attribute
MaxNum == 2         \* numeric values are drawn from -MaxNum..MaxNum
MaxLen == 3         \* length of the raw tier strings
MaxTiers == 3       \* tiers of a discourse handed to process_order
MaxSegs == 2        \* annotations of one tier of one speaker

(***************************************************************************)
(* Python values.                                                          *)
(***************************************************************************)
None == [t |-> "None"]
PyInt(n) == [t |-> "int", v |-> n]
PyStr(s) == [t |-> "str", v |-> s]
PyList(s) == [t |-> "list", v |-> s]
PySet(s) == [t |-> "set", v |-> s]

NUMBER_CHARACTERS == {"0", "1", "2", "3", "4", "5", "6", "7", "8", "9"}

DigitValue(c) ==
    CASE c = "0" -> 0 [] c = "1" -> 1 [] c = "2" -> 2 [] c = "3" -> 3
      [] c = "4" -> 4 [] c = "5" -> 5 [] c = "6" -> 6 [] c = "7" -> 7
      [] c = "8" -> 8 [] c = "9" -> 9

RECURSIVE DigitsValue(_)
DigitsValue(s) ==
    IF s = <<>> THEN 0
    ELSE 10 * DigitsValue(SubSeq(s, 1, Len(s) - 1)) + DigitValue(s[Len(s)])

AllDigits(s) == s # <<>> /\ \A i \in 1..Len(s) : s[i] \in NUMBER_CHARACTERS

\* float(value) of a str over the characters used here: an optional sign and
\* at least one digit. ok = FALSE is ValueError.
ParseFloat(s) ==
    IF s # <<>> /\ s[1] \in {"-", "+"}
    THEN IF AllDigits(Tail(s))
         THEN [ok |-> TRUE,
               v |-> IF s[1] = "-" THEN 0 - DigitsValue(Tail(s))
                     ELSE DigitsValue(Tail(s))]
         ELSE [ok |-> FALSE, v |-> 0]
    ELSE IF AllDigits(s) THEN [ok |-> TRUE, v |-> DigitsValue(s)]
         ELSE [ok |-> FALSE, v |-> 0]

(***************************************************************************)
(* Attribute                                                               *)
(***************************************************************************)
ATT_TYPES == {"spelling", "tier", "numeric", "factor"}

\* Attribute.__init__ with default_value = None
AttributeInit(att_type) ==
    [att_type |-> att_type,
     range |-> CASE att_type = "numeric" -> PyList(<<0, 0>>)
                 [] att_type = "factor" -> PySet({})
                 [] att_type = "spelling" -> None
                 [] att_type = "tier" -> PySet({})]

\* The values update_range is called with: None, ints, and strs.
StrValues ==
    {<<>>, <<"1">>, <<"-", "1">>, <<"1", "2">>, <<"a">>, <<"1", "a">>}

Values ==
    {None} \cup {PyInt(n) : n \in (0 - MaxNum)..MaxNum}
           \cup {PyStr(s) : s \in StrValues}

\* A mis-written update_range: a spelling attribute that meets a value that
\* parses as a number becomes numeric again.
update_range_reversible(self, value) ==
    IF value = None THEN [self |-> self, raised |-> "none"]
    ELSE IF self.att_type = "numeric"
    THEN IF value.t = "str" /\ ~ParseFloat(value.v).ok
         THEN [self |-> [att_type |-> "spelling", range |-> None],
               raised |-> "none"]
         ELSE LET x == IF value.t = "str" THEN ParseFloat(value.v).v
                       ELSE value.v
                  r == self.range.v
              IN [self |-> [self EXCEPT !.range =
                        PyList(IF x < r[1] THEN <<x, r[2]>>
                               ELSE IF x > r[2] THEN <<r[1], x>> ELSE r)],
                  raised |-> "none"]
    ELSE IF self.att_type = "factor"
    THEN [self |-> [self EXCEPT !.range = PySet(self.range.v \cup {value})],
          raised |-> "none"]
    ELSE IF self.att_type = "tier"
    THEN IF value.t = "str"
         THEN [self |-> [self EXCEPT !.range =
                   PySet(self.range.v \cup
                         {PyStr(<<value.v[i]>>) : i \in 1..Len(value.v)})],
               raised |-> "none"]
         ELSE [self |-> self, raised |-> "TypeError"]
    ELSE IF self.att_type = "spelling" /\ value.t = "int"
    THEN [self |-> [att_type |-> "numeric",
                    range |-> PyList(<<value.v, value.v>>)],
          raised |-> "none"]
    ELSE [self |-> self, raised |-> "none"]

\* Attribute.update_range(value): the updated object and the exception raised
update_range(self, value) ==
    IF value = None THEN [self |-> self, raised |-> "none"]
    ELSE IF self.att_type = "numeric"
    THEN IF value.t = "str" /\ ~ParseFloat(value.v).ok
         THEN [self |-> [att_type |-> "spelling", range |-> None],
               raised |-> "none"]
         ELSE LET x == IF value.t = "str" THEN ParseFloat(value.v).v
                       ELSE value.v
                  r == self.range.v
              IN [self |-> [self EXCEPT !.range =
                        PyList(IF x < r[1] THEN <<x, r[2]>>
                               ELSE IF x > r[2] THEN <<r[1], x>> ELSE r)],
                  raised |-> "none"]
    ELSE IF self.att_type = "factor"
    THEN [self |-> [self EXCEPT !.range = PySet(self.range.v \cup {value})],
          raised |-> "none"]
    ELSE IF self.att_type = "tier"
    THEN IF value.t = "str"
         THEN [self |-> [self EXCEPT !.range =
                   PySet(self.range.v \cup
                         {PyStr(<<value.v[i]>>) : i \in 1..Len(value.v)})],
               raised |-> "none"]
         ELSE [self |-> self, raised |-> "TypeError"]   \* an int is not iterable
    ELSE [self |-> self, raised |-> "none"]

AddIdle ==
    /\ added_tier = [characters |-> {}, list |-> <<>>]
    /\ passed = <<>>

CorpusIdle ==
    /\ context = [relationship_types |-> {}, is_timed |-> FALSE,
                  hierarchy |-> <<>>]
    /\ graph = <<>>
    /\ sql = [session |-> <<>>, db |-> <<>>]
    /\ variables = None
    /\ threads = <<>>
    /\ journal = <<>>

AttrIdle ==
    /\ created_type = "spelling"
    /\ attribute = AttributeInit("spelling")
    /\ updates = <<>>

ParseIdle ==
    /\ tier = None
    /\ text = <<>>
    /\ transcription = None
    /\ retokenized = None

DataIdle ==
    /\ data = <<>>
    /\ order = <<>>
    /\ pc = "idle"
    /\ cursor = 0
    /\ placed = FALSE
    /\ stalled = FALSE
    /\ source = <<>>
    /\ collapsed = FALSE
    /\ wordtokens = <<>>
    /\ converted = FALSE
    /\ AddIdle
    /\ CorpusIdle

AttrInit ==
    /\ component = "Attribute"
    /\ raised = "none"
    /\ created_type \in ATT_TYPES
    /\ attribute = AttributeInit(created_type)
    /\ updates = <<>>
    /\ ParseIdle
    /\ DataIdle

UpdateRange ==
    /\ component = "Attribute"
    /\ Len(updates) < MaxUpdates
    /\ \E value \in Values :
          LET r == update_range(attribute, value)
          IN /\ attribute' = r.self
             /\ raised' = r.raised
             /\ updates' = Append(updates, value)
    /\ UNCHANGED <<component, created_type, parseVars, data, orderVars,
                   collapseVars,
                   discourseVars, addVars, corpusVars>>

AttrNext == UpdateRange

SpecAttribute == AttrInit /\ [][AttrNext]_vars

(***************************************************************************)
(* Claims about Attribute                                                  *)
(***************************************************************************)
IsNumericValue(value) ==
    value.t = "int" \/ (value.t = "str" /\ ParseFloat(value.v).ok)

NumberOf(value) == IF value.t = "str" THEN ParseFloat(value.v).v ELSE value.v

SeqMin(s) == CHOOSE m \in {NumberOf(s[i]) : i \in 1..Len(s)} :
                \A i \in 1..Len(s) : m <= NumberOf(s[i])
SeqMax(s) == CHOOSE m \in {NumberOf(s[i]) : i \in 1..Len(s)} :
                \A i \in 1..Len(s) : m >= NumberOf(s[i])

\* C1 (as claimed): a fresh numeric Attribute that has been given a non-empty
\* sequence of numeric values has range [min(sequence), max(sequence)].
C1_RangeIsMinMax ==
    (/\ component = "Attribute"
     /\ created_type = "numeric"
     /\ updates # <<>>
     /\ \A i \in 1..Len(updates) : IsNumericValue(updates[i]))
    => attribute.range = PyList(<<SeqMin(updates), SeqMax(updates)>>)

\* C2: once a numeric Attribute has been given a str that does not parse as a
\* number, its type is 'spelling' and its range is None, whatever update_range
\* is called with afterwards.
C2_DowngradeOneWay ==
    (/\ component = "Attribute"
     /\ created_type = "numeric"
     /\ \E i \in 1..Len(updates) :
           updates[i].t = "str" /\ ~ParseFloat(updates[i].v).ok)
    => attribute = [att_type |-> "spelling", range |-> None]

\* C2 witness: the downgrade happened and numeric values were given after it.
C2_Witness ==
    /\ component = "Attribute"
    /\ created_type = "numeric"
    /\ Len(updates) = 3
    /\ updates[1] = PyInt(2)
    /\ updates[2] = PyStr(<<"1", "a">>)
    /\ updates[3] = PyStr(<<"-", "1">>)
    /\ attribute.att_type = "spelling"

(***************************************************************************)
(* BaseAnnotation and the transcription tokenizer                          *)
(***************************************************************************)
\* BaseAnnotation.__init__(label, begin, end)
BaseAnnotation(label, begin, end) ==
    [label |-> label, begin |-> begin, end |-> end,
     stress |-> None, tone |-> None, group |-> None]

\* BaseAnnotation.__eq__ between two BaseAnnotations
BaseAnnotation_eq(self, other) ==
    self.label = other.label /\ self.begin = other.begin
        /\ self.end = other.end

\* list.__eq__ over lists of BaseAnnotation
ListEq(a, b) ==
    Len(a) = Len(b) /\ \A i \in 1..Len(a) : BaseAnnotation_eq(a[i], b[i])

Stress == PyStr(<<"s", "t", "r", "e", "s", "s">>)
Tone == PyStr(<<"t", "o", "n", "e">>)

\* The characters of the raw strings: letters, a digit, the transcription
\* delimiter, the morpheme delimiter and a blank.
Chars == {"t", "s", "a", "1", ".", "-", " "}
WHITESPACE == {" ", "\t", "\n", "\r", "\f"}
Strings == UNION {[1..n -> Chars] : n \in 0..MaxLen}

\* The tier configurations (AnnotationType.__init__ sets the first of each).
\* Morpheme delimiters are single characters that are literal in a regex.
TransDelimiters == {None, PyStr(<<".">>)}
DigraphSets == {{}, {<<"t", "s">>, <<"t">>}, {<<"t", "s">>}}
MorphDelimiterSets == {{}, {<<"-">>}}
IgnoredSets == {{}, {"a"}}
NumberBehaviors == {None, Stress, Tone}

AnnotationTypes ==
    [trans_delimiter : TransDelimiters,
     digraphs : DigraphSets,
     morph_delimiters : MorphDelimiterSets,
     ignored_characters : IgnoredSets,
     number_behavior : NumberBehaviors]

\* x occurs in s at position i
OccursAt(s, i, x) ==
    /\ i + Len(x) - 1 <= Len(s)
    /\ \A j \in 1..Len(x) : s[i + j - 1] = x[j]

\* x in string
Contains(s, x) == \E i \in 1..(Len(s) + 1) : OccursAt(s, i, x)

\* str.split(sep), sep not empty
RECURSIVE split(_, _)
split(s, sep) ==
    IF Contains(s, sep)
    THEN LET i == CHOOSE k \in 1..Len(s) :
                      /\ OccursAt(s, k, sep)
                      /\ \A j \in 1..(k - 1) : ~OccursAt(s, j, sep)
         IN <<SubSeq(s, 1, i - 1)>>
                \o split(SubSeq(s, i + Len(sep), Len(s)), sep)
    ELSE <<s>>

\* re.split("|".join(md), string), every element of md one literal character
RECURSIVE re_split(_, _)
re_split(md, s) ==
    IF \E k \in 1..Len(s) : <<s[k]>> \in md
    THEN LET i == CHOOSE k \in 1..Len(s) :
                      /\ <<s[k]>> \in md
                      /\ \A j \in 1..(k - 1) : <<s[j]>> \notin md
         IN <<SubSeq(s, 1, i - 1)>> \o re_split(md, SubSeq(s, i + 1, Len(s)))
    ELSE <<s>>

\* sep.join(strings)
RECURSIVE join(_, _)
join(sep, strings) ==
    IF strings = <<>> THEN <<>>
    ELSE IF Len(strings) = 1 THEN strings[1]
    ELSE strings[1] \o sep \o join(sep, Tail(strings))

\* A mis-written compile_digraphs: sorted without reverse=True.
compile_digraphs_shortest_first(digraph_list) ==
    CHOOSE p \in [1..Cardinality(digraph_list) -> digraph_list] :
        /\ \A d \in digraph_list : \E i \in DOMAIN p : p[i] = d
        /\ \A i, j \in DOMAIN p : i < j => Len(p[i]) <= Len(p[j])

\* compile_digraphs: the alternatives of the pattern in the order they are
\* tried, the digraphs sorted by length, longest first; \d+ and \S follow.
compile_digraphs(digraph_list) ==
    CHOOSE p \in [1..Cardinality(digraph_list) -> digraph_list] :
        /\ \A d \in digraph_list : \E i \in DOMAIN p : p[i] = d
        /\ \A i, j \in DOMAIN p : i < j => Len(p[i]) >= Len(p[j])

\* The match of  alt1|alt2|...|\d+|\S  at position i of s; <<>> when none.
\* An alternation takes the first alternative that matches.
MatchAt(pattern, s, i) ==
    IF \E k \in 1..Len(pattern) : OccursAt(s, i, pattern[k])
    THEN pattern[CHOOSE k \in 1..Len(pattern) :
            /\ OccursAt(s, i, pattern[k])
            /\ \A j \in 1..(k - 1) : ~OccursAt(s, i, pattern[j])]
    ELSE IF s[i] \in NUMBER_CHARACTERS
    THEN SubSeq(s, i, CHOOSE e \in i..Len(s) :
            /\ \A j \in i..e : s[j] \in NUMBER_CHARACTERS
            /\ (e = Len(s) \/ s[e + 1] \notin NUMBER_CHARACTERS))
    ELSE IF s[i] \notin WHITESPACE THEN <<s[i]>>
    ELSE <<>>

\* pattern.findall(s), scanning from position i
RECURSIVE findall(_, _, _)
findall(pattern, s, i) ==
    IF i > Len(s) THEN <<>>
    ELSE LET m == MatchAt(pattern, s, i)
         IN IF m = <<>> THEN findall(pattern, s, i + 1)
            ELSE <<m>> \o findall(pattern, s, i + Len(m))

\* AnnotationType.digraph_pattern
digraph_pattern(self) ==
    IF Cardinality(self.digraphs) = 0 THEN None
    ELSE PyList(compile_digraphs(self.digraphs))

\* parse_numbers = re.compile('\d+|\S')
parse_numbers == <<>>

Digits(seg) == SelectSeq(seg, LAMBDA x : x \in NUMBER_CHARACTERS)
NonDigits(seg) == SelectSeq(seg, LAMBDA x : x \notin NUMBER_CHARACTERS)

\* setattr(a, number_behavior, num)
SetNumber(a, number_behavior, num) ==
    IF number_behavior = Stress THEN [a EXCEPT !.stress = num]
    ELSE [a EXCEPT !.tone = num]

\* The loop of parse_transcription over the tokens (lines 544-565):
\* the list built, or the exception raised.
RECURSIVE final_string_loop(_, _, _)
final_string_loop(tokens, number_behavior, final_string) ==
    IF tokens = <<>> THEN [raised |-> "none", value |-> final_string]
    ELSE IF Head(tokens) = <<>>
    THEN final_string_loop(Tail(tokens), number_behavior, final_string)
    ELSE LET stripping == number_behavior \in {Stress, Tone}
             digits == Digits(Head(tokens))
             num == IF stripping /\ digits # <<>> THEN PyStr(digits) ELSE None
             seg == IF stripping THEN NonDigits(Head(tokens)) ELSE Head(tokens)
         IN IF number_behavior # None /\ seg = <<>>
            THEN IF final_string = <<>>
                 THEN [raised |-> "IndexError", value |-> <<>>]
                 ELSE final_string_loop(Tail(tokens), number_behavior,
                        [final_string EXCEPT ![Len(final_string)] =
                            SetNumber(@, number_behavior, num)])
            ELSE LET a == BaseAnnotation(seg, None, None)
                 IN final_string_loop(Tail(tokens), number_behavior,
                        Append(final_string,
                               IF number_behavior # None /\ num # None
                               THEN SetNumber(a, number_behavior, num)
                               ELSE a))

\* Lines 535-543: the ignored characters removed, then the string cut into
\* tokens by the delimiter, else by the digraph pattern, else by parse_numbers.
tokenize(string, annotation_type) ==
    LET stripped == SelectSeq(string,
                        LAMBDA x : x \notin annotation_type.ignored_characters)
    IN IF annotation_type.trans_delimiter # None
       THEN split(stripped, annotation_type.trans_delimiter.v)
       ELSE IF digraph_pattern(annotation_type) # None
       THEN findall(digraph_pattern(annotation_type).v, stripped, 1)
       ELSE findall(parse_numbers, stripped, 1)

\* parse_transcription(string, annotation_type): [raised, value, scans], where
\* scans lists, for every string that was cut into tokens, the string after
\* the ignored characters were removed and its tokens.
RECURSIVE parse_transcription(_, _)
RECURSIVE parse_morphs(_, _, _, _)
parse_morphs(morphs, i, annotation_type, acc) ==
    IF i > Len(morphs) THEN acc
    ELSE LET trans == parse_transcription(morphs[i], annotation_type)
         IN IF trans.raised # "none"
            THEN [raised |-> trans.raised, value |-> <<>>,
                  scans |-> acc.scans \o trans.scans]
            ELSE parse_morphs(morphs, i + 1, annotation_type,
                    [raised |-> "none",
                     value |-> acc.value \o
                        [k \in 1..Len(trans.value) |->
                            [trans.value[k] EXCEPT !.group = PyInt(i - 1)]],
                     scans |-> acc.scans \o trans.scans])

parse_transcription(string, annotation_type) ==
    LET md == annotation_type.morph_delimiters
    IN IF Cardinality(md) # 0 /\ \E x \in md : Contains(string, x)
       THEN parse_morphs(re_split(md, string), 1, annotation_type,
                [raised |-> "none", value |-> <<>>, scans |-> <<>>])
       ELSE LET tokens == tokenize(string, annotation_type)
                r == final_string_loop(tokens,
                        annotation_type.number_behavior, <<>>)
            IN [raised |-> r.raised, value |-> r.value,
                scans |-> <<[string |-> SelectSeq(string, LAMBDA x :
                                x \notin annotation_type.ignored_characters),
                             tokens |-> tokens]>>]

ParseInit ==
    /\ component = "parse_transcription"
    /\ raised = "none"
    /\ tier \in AnnotationTypes
    /\ text \in Strings
    /\ transcription = None
    /\ retokenized = None
    /\ AttrIdle
    /\ DataIdle

\* transcription = parse_transcription(string, annotation_type)
ParseTranscription ==
    /\ component = "parse_transcription"
    /\ transcription = None
    /\ transcription' = parse_transcription(text, tier)
    /\ raised' = transcription'.raised
    /\ UNCHANGED <<component, tier, text, retokenized, attrVars, data,
                   orderVars, collapseVars,
                   discourseVars, addVars, corpusVars>>

\* parse_transcription(delimiter.join(x.label for x in transcription), tier)
Retokenize ==
    /\ component = "parse_transcription"
    /\ transcription # None
    /\ transcription.raised = "none"
    /\ tier.trans_delimiter # None
    /\ retokenized = None
    /\ retokenized' = parse_transcription(
            join(tier.trans_delimiter.v,
                 [k \in 1..Len(transcription.value) |->
                     transcription.value[k].label]),
            tier)
    /\ raised' = retokenized'.raised
    /\ UNCHANGED <<component, tier, text, transcription, attrVars, data,
                   orderVars, collapseVars,
                   discourseVars, addVars, corpusVars>>

ParseNext == ParseTranscription \/ Retokenize

SpecParse == ParseInit /\ [][ParseNext]_vars

(***************************************************************************)
(* Claims about parse_transcription                                        *)
(***************************************************************************)
Labels(segments) == [k \in 1..Len(segments) |-> segments[k].label]

\* C3 (as claimed): parse_transcription is total: for every tier
\* configuration and every string it returns a sequence of segments without
\* raising, and on the empty string it returns the empty sequence.
C3_Total ==
    (component = "parse_transcription" /\ transcription # None)
    => /\ transcription.raised = "none"
       /\ (text = <<>> => transcription.value = <<>>)

\* The part of C3 the code keeps: the empty string gives the empty sequence.
C3_EmptyString ==
    (component = "parse_transcription" /\ transcription # None /\ text = <<>>)
    => transcription.raised = "none" /\ transcription.value = <<>>

\* C4 (as claimed): on a tier with a transcription delimiter, for every
\* string, parsing the labels of parse_transcription(string) joined with the
\* delimiter yields the same segments (by label, begin, end) as
\* parse_transcription(string) does.
C4_RoundTrip ==
    (/\ component = "parse_transcription"
     /\ tier.trans_delimiter # None
     /\ transcription # None)
    => /\ transcription.raised = "none"
       /\ (retokenized # None =>
             /\ retokenized.raised = "none"
             /\ ListEq(retokenized.value, transcription.value))

\* What holds of C4: whenever the first parse returns, the second returns the
\* same segments.
C4_RoundTripOfReturned ==
    (component = "parse_transcription" /\ retokenized # None)
    => /\ retokenized.raised = "none"
       /\ ListEq(retokenized.value, transcription.value)

\* The digraphs of D that occur in s at position i
MatchingDigraphs(D, s, i) == {d \in D : OccursAt(s, i, d)}

\* tokens is the scan of s from position i in which every token is the longest
\* digraph of D occurring at the scan position, else the run of digits
\* starting there, else the single non-blank character there.
RECURSIVE IsLongestMatchScan(_, _, _, _)
IsLongestMatchScan(D, s, i, tokens) ==
    IF i > Len(s) THEN tokens = <<>>
    ELSE IF MatchingDigraphs(D, s, i) # {}
    THEN /\ tokens # <<>>
         /\ Head(tokens) \in MatchingDigraphs(D, s, i)
         /\ \A d \in MatchingDigraphs(D, s, i) : Len(d) <= Len(Head(tokens))
         /\ IsLongestMatchScan(D, s, i + Len(Head(tokens)), Tail(tokens))
    ELSE IF s[i] \in NUMBER_CHARACTERS
    THEN /\ tokens # <<>>
         /\ AllDigits(Head(tokens))
         /\ OccursAt(s, i, Head(tokens))
         /\ (i + Len(Head(tokens)) > Len(s)
                \/ s[i + Len(Head(tokens))] \notin NUMBER_CHARACTERS)
         /\ IsLongestMatchScan(D, s, i + Len(Head(tokens)), Tail(tokens))
    ELSE IF s[i] \notin WHITESPACE
    THEN /\ tokens # <<>>
         /\ Head(tokens) = <<s[i]>>
         /\ IsLongestMatchScan(D, s, i + 1, Tail(tokens))
    ELSE IsLongestMatchScan(D, s, i + 1, tokens)

\* C5: on a tier with digraphs and no transcription delimiter, every scan
\* emits at each position the longest digraph matching there (else a run of
\* digits or a single non-blank character); with digraphs {ts, t} the string
\* 'tsa' yields [ts, a].
C5_LongestMatchFirst ==
    (/\ component = "parse_transcription"
     /\ transcription # None
     /\ tier.digraphs # {}
     /\ tier.trans_delimiter = None)
    => /\ \A k \in 1..Len(transcription.scans) :
             IsLongestMatchScan(tier.digraphs, transcription.scans[k].string,
                                1, transcription.scans[k].tokens)
       /\ (/\ tier.digraphs = {<<"t", "s">>, <<"t">>}
           /\ tier.ignored_characters = {}
           /\ text = <<"t", "s", "a">>)
          => Labels(transcription.value) = <<<<"t", "s">>, <<"a">>>>

\* C5 witness: 'tsa' was parsed on a tier with digraphs {ts, t}.
C5_Witness ==
    /\ component = "parse_transcription"
    /\ tier.digraphs = {<<"t", "s">>, <<"t">>}
    /\ tier.trans_delimiter = None
    /\ tier.ignored_characters = {}
    /\ text = <<"t", "s", "a">>
    /\ transcription # None
    /\ transcription.raised = "none"
    /\ Labels(transcription.value) = <<<<"t", "s">>, <<"a">>>>

(***************************************************************************)
(* AnnotationType and DiscourseData                                        *)
(***************************************************************************)
\* \w of a regular expression, over the characters used in names
WORD_CHARACTERS ==
    {"a", "b", "m", "o", "p", "s", "t", "w", "x", "A", "B", "_"}
        \cup NUMBER_CHARACTERS

\* re.sub('{}\W*'.format(speaker), '', name), scanning name from position i;
\* speaker is a non-empty str of word characters
RECURSIVE re_sub_speaker(_, _, _)
re_sub_speaker(speaker, name, i) ==
    IF i > Len(name) THEN <<>>
    ELSE IF OccursAt(name, i, speaker)
    THEN LET after == i + Len(speaker)
             e == CHOOSE j \in after..(Len(name) + 1) :
                      /\ \A h \in after..(j - 1) : name[h] \notin WORD_CHARACTERS
                      /\ (j = Len(name) + 1 \/ name[j] \in WORD_CHARACTERS)
         IN re_sub_speaker(speaker, name, e)
    ELSE <<name[i]>> \o re_sub_speaker(speaker, name, i + 1)

\* AnnotationType.__init__(name, subtype, supertype, anchor, token, base,
\* speaker); list is self._list
AnnotationType(name, subtype, supertype, anchor, token, base, speaker) ==
    [name |-> name, subtype |-> subtype, supertype |-> supertype,
     token |-> token, base |-> base, anchor |-> anchor, speaker |-> speaker,
     ignored |-> FALSE,
     output_name |-> IF speaker # None
                     THEN PyStr(re_sub_speaker(speaker.v, name.v, 1))
                     ELSE name,
     list |-> <<>>]

\* AnnotationType.is_word_anchor
is_word_anchor(self) == ~self.token /\ self.anchor

\* DiscourseData.keys(): the names in insertion order
keys(d) == [i \in 1..Len(d) |-> d[i].name]

\* key in a list or dict
In(key, list) == \E i \in 1..Len(list) : list[i] = key

\* DiscourseData.__getitem__
GetItem(d, key) == d[CHOOSE i \in 1..Len(d) : d[i].name = key]

\* DiscourseData.word_levels
word_levels(d) == keys(SelectSeq(d, is_word_anchor))

\* DiscourseData.base_levels
base_levels(d) == keys(SelectSeq(d, LAMBDA x : x.base))

(***************************************************************************)
(* DiscourseData.process_order, statement by statement                     *)
(***************************************************************************)
W == PyStr(<<"w">>)
M == PyStr(<<"m">>)
P == PyStr(<<"p">>)
X == PyStr(<<"x">>)     \* never the name of a tier

TierNames == <<W, M, P>>

\* (anchor, token, base) of the tiers handed to process_order
TierKinds ==
    {<<TRUE, FALSE, FALSE>>,    \* a word level
     <<TRUE, FALSE, TRUE>>,     \* a word level that is a base tier
     <<FALSE, FALSE, FALSE>>,   \* a type tier above the base
     <<FALSE, TRUE, TRUE>>}     \* a token base tier

\* DiscourseData(name, levels) with n tiers of the given kinds and supertypes
OrderDiscourse(n, kind, sup) ==
    [i \in 1..n |->
        AnnotationType(TierNames[i], None, sup[i],
                       kind[i][1], kind[i][2], kind[i][3], None)]

OrderInit ==
    /\ component = "process_order"
    /\ raised = "none"
    /\ \E n \in 1..MaxTiers :
          \E kind \in [1..n -> TierKinds],
             sup \in [1..n -> {None, X} \cup {TierNames[j] : j \in 1..n}] :
             data = OrderDiscourse(n, kind, sup)
    /\ order = <<>>
    /\ pc = "idle"
    /\ cursor = 0
    /\ placed = FALSE
    /\ stalled = FALSE
    /\ source = <<>>
    /\ collapsed = FALSE
    /\ wordtokens = <<>>
    /\ converted = FALSE
    /\ AddIdle
    /\ CorpusIdle
    /\ AttrIdle
    /\ ParseIdle

\* line 446: order = self.word_levels
ProcessOrderCall ==
    /\ component = "process_order"
    /\ pc = "idle"
    /\ order' = word_levels(data)
    /\ pc' = "while"
    /\ UNCHANGED <<component, raised, attrVars, parseVars, data, cursor,
                   placed, stalled, collapseVars,
                   discourseVars, addVars, corpusVars>>

\* line 447: the test of the while loop
WhileCondition(d, o) == Len(o) < Len(keys(d)) - Len(base_levels(d))

\* line 447, the test holds: the for loop starts over self.data.items()
WhileEnter ==
    /\ component = "process_order"
    /\ pc = "while"
    /\ WhileCondition(data, order)
    /\ pc' = "for"
    /\ cursor' = 1
    /\ placed' = FALSE
    /\ UNCHANGED <<component, raised, attrVars, parseVars, data, order,
                   stalled, collapseVars,
                   discourseVars, addVars, corpusVars>>

\* lines 447 and 458: the test fails and order is returned
WhileExit ==
    /\ component = "process_order"
    /\ pc = "while"
    /\ ~WhileCondition(data, order)
    /\ pc' = "returned"
    /\ UNCHANGED <<component, raised, attrVars, parseVars, data, order,
                   cursor, placed, stalled, collapseVars,
                   discourseVars, addVars, corpusVars>>

\* lines 449-457: whether the body of the for loop appends k
Appends(v, o) ==
    /\ ~In(v.name, o)
    /\ ~v.base
    /\ (v.supertype = None \/ In(v.supertype, o))

\* lines 449-457: order after the body of the for loop ran for tier v
ForBody(v, o) == IF Appends(v, o) THEN Append(o, v.name) ELSE o

\* Non-base tiers that are not in order
Unplaced(d, o) == {i \in 1..Len(d) : ~d[i].base /\ ~In(d[i].name, o)}

\* lines 448-457: one iteration of the for loop; after the last tier the
\* while test is next
ForStep ==
    /\ component = "process_order"
    /\ pc = "for"
    /\ order' = ForBody(data[cursor], order)
    /\ placed' = (placed \/ order' # order)
    /\ IF cursor < Len(data)
       THEN /\ cursor' = cursor + 1
            /\ UNCHANGED <<pc, stalled>>
       ELSE /\ pc' = "while"
            /\ stalled' = (stalled \/ (~placed' /\ Unplaced(data, order') # {}))
            /\ UNCHANGED cursor
    /\ UNCHANGED <<component, raised, attrVars, parseVars, data,
                   collapseVars,
                   discourseVars, addVars, corpusVars>>

OrderNext == ProcessOrderCall \/ WhileEnter \/ WhileExit \/ ForStep

SpecOrder == OrderInit /\ [][OrderNext]_vars

(***************************************************************************)
(* Claims about process_order                                              *)
(***************************************************************************)
\* Every supertype is None or names another tier of the discourse, and no
\* tier is above itself.
RECURSIVE Above(_, _, _)
Above(d, name, steps) ==
    IF steps = 0 \/ ~In(name, keys(d)) \/ GetItem(d, name).supertype = None
    THEN {}
    ELSE {GetItem(d, name).supertype}
            \cup Above(d, GetItem(d, name).supertype, steps - 1)

AcyclicForest(d) ==
    \A i \in 1..Len(d) :
        /\ d[i].supertype # None =>
              (In(d[i].supertype, keys(d)) /\ d[i].supertype # d[i].name)
        /\ d[i].name \notin Above(d, d[i].name, Len(d))

Position(o, key) == CHOOSE i \in 1..Len(o) : o[i] = key

\* o starts with the word levels and holds every non-base tier exactly once,
\* each tier that is not a word level after its supertype
ValidOrder(d, o) ==
    /\ Len(o) >= Len(word_levels(d))
    /\ SubSeq(o, 1, Len(word_levels(d))) = word_levels(d)
    /\ \A i \in 1..Len(d) :
          ~d[i].base => Cardinality({j \in 1..Len(o) : o[j] = d[i].name}) = 1
    /\ \A i \in 1..Len(d) :
          (~d[i].base /\ ~is_word_anchor(d[i]) /\ d[i].supertype # None)
          => /\ In(d[i].supertype, o)
             /\ Position(o, d[i].supertype) < Position(o, d[i].name)

\* C6 (as claimed): on an acyclic supertype forest process_order terminates
\* (no pass of the loop leaves `order` as it found it) and returns an order
\* that starts with the word levels and holds every non-base tier exactly
\* once, each after its supertype.
C6_ProcessOrderPlacesAll ==
    (component = "process_order" /\ AcyclicForest(data))
    => /\ ~stalled
       /\ (pc = "returned" => ValidOrder(data, order))

\* C7 (as claimed): when a pass has placed no tier while non-base tiers are
\* unplaced, process_order has failed with a hierarchy error.
C7_NoProgressRaises ==
    (component = "process_order" /\ stalled)
    => raised = "HierarchyError"

(***************************************************************************)
(* DiscourseData.collapse_speakers                                         *)
(***************************************************************************)
PyTuple(s) == [t |-> "tuple", v |-> s]

\* ord(c) for the characters of speaker names
CodePoint(c) == CASE c = "A" -> 65 [] c = "B" -> 66 [] OTHER -> 0

\* a < b for strs, as sorted() compares them
RECURSIVE StrLess(_, _)
StrLess(a, b) ==
    IF a = <<>> THEN b # <<>>
    ELSE IF b = <<>> THEN FALSE
    ELSE IF Head(a) = Head(b) THEN StrLess(Tail(a), Tail(b))
    ELSE CodePoint(Head(a)) < CodePoint(Head(b))

\* sorted(set(...)) of strs
RECURSIVE Sorted(_)
Sorted(S) ==
    IF S = {} THEN <<>>
    ELSE LET least == CHOOSE x \in S : \A y \in S \ {x} : StrLess(x.v, y.v)
         IN <<least>> \o Sorted(S \ {least})

\* lines 402-413: the keys of self.data, speakers sorted, for each speaker
\* the non-base tiers and then the base tiers
RECURSIVE SpeakerKeys(_, _)
SpeakerKeys(d, speakers) ==
    IF speakers = <<>> THEN <<>>
    ELSE keys(SelectSeq(d, LAMBDA v : v.speaker = Head(speakers) /\ ~v.base))
            \o keys(SelectSeq(d, LAMBDA v : v.speaker = Head(speakers) /\ v.base))
            \o SpeakerKeys(d, Tail(speakers))

collapse_keys(d) ==
    SpeakerKeys(d, Sorted({d[i].speaker : i \in 1..Len(d)} \ {None}))

\* The keyword parameters of AnnotationType.__init__ (lines 266-267) and the
\* keywords of the call in collapse_speakers (lines 424-426)
INIT_KEYWORDS == {"attribute", "anchor", "token", "base", "speaker"}
CALL_KEYWORDS == {"anchor", "token", "base", "delimited"}

\* lines 428-437: the annotation, a dict given as its items (key, value),
\* with the keys that name tiers rewritten and their intervals shifted
Translate(d, shifts, ann) ==
    [j \in 1..Len(ann) |->
        LET k2 == ann[j][1]
            v2 == ann[j][2]
        IN IF In(k2, keys(d)) /\ GetItem(d, k2).output_name \in DOMAIN shifts
           THEN LET newk2 == GetItem(d, k2).output_name
                IN <<newk2, PyTuple(<<v2.v[1] + shifts[newk2],
                                      v2.v[2] + shifts[newk2]>>)>>
           ELSE <<k2, v2>>]       \* except KeyError

\* dict[key] = value on a sequence of tiers keyed by name
AddToTier(newdata, name, anns) ==
    [i \in 1..Len(newdata) |->
        IF newdata[i].name = name
        THEN [newdata[i] EXCEPT !.list = @ \o anns]
        ELSE newdata[i]]

\* lines 414-442: the loop over keys from position i; the new self.data, or
\* the exception raised and self.data as it was
RECURSIVE collapse_loop(_, _, _, _, _)
collapse_loop(d, ks, i, newdata, shifts) ==
    IF i > Len(ks) THEN [raised |-> "none", data |-> newdata]
    ELSE LET v == GetItem(d, ks[i])
             name == v.output_name
         IN IF ~In(name, keys(newdata))
            THEN IF \/ (v.subtype # None /\ ~In(v.subtype, keys(d)))
                    \/ (v.supertype # None /\ ~In(v.supertype, keys(d)))
                 THEN [raised |-> "KeyError", data |-> d]
                 ELSE IF ~(CALL_KEYWORDS \subseteq INIT_KEYWORDS)
                 THEN [raised |-> "TypeError", data |-> d]
                 ELSE collapse_loop(d, ks, i,
                        Append(newdata,
                            AnnotationType(name,
                                IF v.subtype = None THEN None
                                ELSE GetItem(d, v.subtype).output_name,
                                IF v.supertype = None THEN None
                                ELSE GetItem(d, v.supertype).output_name,
                                v.anchor, v.token, v.base, None)),
                        shifts)
            ELSE collapse_loop(d, ks, i + 1,
                    AddToTier(newdata, name,
                        [j \in 1..Len(v.list) |->
                            Translate(d, shifts, v.list[j])]),
                    IF v.base
                    THEN [shifts EXCEPT ![name] = @ + Len(v.list)]
                    ELSE shifts)

\* collapse_speakers(): self.data afterwards and the exception raised
collapse_speakers(d) ==
    collapse_loop(d, collapse_keys(d), 1, <<>>,
        [n \in {GetItem(d, x).output_name :
                    x \in {base_levels(d)[i] : i \in 1..Len(base_levels(d))}}
            |-> 0])

\* The discourses handed to collapse_speakers: for every speaker a word tier
\* '<speaker>-w' and a base tier '<speaker>-p', or the two tiers 'w' and 'p'
\* of no speaker. Annotations are dicts: a 'label' and, on the word tier, the
\* interval of the base tier the word covers.
Speakers == {PyStr(<<"A">>), PyStr(<<"B">>)}
LabelKey == PyStr(<<"l", "a", "b", "e", "l">>)

TierName(speaker, kind) ==
    IF speaker = None THEN PyStr(<<kind>>)
    ELSE PyStr(speaker.v \o <<"-", kind>>)

DigitChar(n) == CASE n = 1 -> "1" [] n = 2 -> "2" [] n = 3 -> "3"
                  [] n = 4 -> "4" [] OTHER -> "0"

Intervals(n) == {<<b, e>> \in (0..n) \X (0..n) : b <= e}

\* The tiers of one speaker: np base segments and the word intervals iv
SpeakerTiers(speaker, np, iv) ==
    LET who == IF speaker = None THEN <<>> ELSE speaker.v
        word == AnnotationType(TierName(speaker, "w"), None, None,
                               TRUE, FALSE, FALSE, speaker)
        phone == AnnotationType(TierName(speaker, "p"), None,
                                TierName(speaker, "w"),
                                FALSE, TRUE, TRUE, speaker)
    IN <<[phone EXCEPT !.list =
            [j \in 1..np |->
                <<<<LabelKey, PyStr(who \o <<"p", DigitChar(j)>>)>>>>]],
         [word EXCEPT !.list =
            [j \in 1..Len(iv) |->
                <<<<LabelKey, PyStr(who \o <<"w", DigitChar(j)>>)>>,
                  <<TierName(speaker, "p"), PyTuple(iv[j])>>>>]]>>

CollapseInit ==
    /\ component = "collapse_speakers"
    /\ raised = "none"
    /\ \E who \in ((SUBSET Speakers) \ {{}}) \cup {{None}} :
          \E np \in [who -> 0..MaxSegs] :
             \E nw \in [who -> 0..MaxSegs] :
                \E iv \in [who -> UNION {[1..n -> Intervals(MaxSegs)] :
                                            n \in 0..MaxSegs}] :
                   /\ \A s \in who :
                         /\ Len(iv[s]) = nw[s]
                         /\ \A j \in 1..nw[s] : iv[s][j][2] <= np[s]
                   /\ data = IF who = Speakers
                             THEN SpeakerTiers(PyStr(<<"B">>), np[PyStr(<<"B">>)],
                                               iv[PyStr(<<"B">>)])
                                  \o SpeakerTiers(PyStr(<<"A">>),
                                                  np[PyStr(<<"A">>)],
                                                  iv[PyStr(<<"A">>)])
                             ELSE LET s == CHOOSE x \in who : TRUE
                                  IN SpeakerTiers(s, np[s], iv[s])
    /\ order = <<>>
    /\ pc = "idle"
    /\ cursor = 0
    /\ placed = FALSE
    /\ stalled = FALSE
    /\ source = <<>>
    /\ collapsed = FALSE
    /\ wordtokens = <<>>
    /\ converted = FALSE
    /\ AddIdle
    /\ CorpusIdle
    /\ AttrIdle
    /\ ParseIdle

\* data.collapse_speakers()
CollapseSpeakers ==
    /\ component = "collapse_speakers"
    /\ ~collapsed
    /\ LET r == collapse_speakers(data)
       IN /\ data' = r.data
          /\ raised' = r.raised
    /\ source' = data
    /\ collapsed' = TRUE
    /\ UNCHANGED <<component, attrVars, parseVars, orderVars,
                   discourseVars, addVars, corpusVars>>

CollapseNext == CollapseSpeakers

SpecCollapse == CollapseInit /\ [][CollapseNext]_vars

(***************************************************************************)
(* Claims about collapse_speakers                                          *)
(***************************************************************************)
\* The names of the merged tiers: the output names of the tiers of a speaker
OutputNames(d) ==
    {d[i].output_name : i \in {j \in 1..Len(d) : d[j].speaker # None}}

\* The names of the tiers of d merged into N, in the order of the merge
RECURSIVE MergedFrom(_, _, _)
MergedFrom(d, ks, N) ==
    IF ks = <<>> THEN <<>>
    ELSE (IF GetItem(d, Head(ks)).output_name = N THEN <<Head(ks)>> ELSE <<>>)
            \o MergedFrom(d, Tail(ks), N)

RECURSIVE SumLen(_, _)
SumLen(d, names) ==
    IF names = <<>> THEN 0
    ELSE Len(GetItem(d, Head(names)).list) + SumLen(d, Tail(names))

\* All source tiers whose output_name is N, speakers sorted
SourcesOf(d, N) ==
    MergedFrom(d, collapse_keys(d)
                    \o keys(SelectSeq(d, LAMBDA v : v.speaker = None)), N)

\* C8 (as claimed): after collapse_speakers every merged tier N holds as many
\* segments as the source tiers with output_name N held together, the
\* segments of each speaker contiguous and in sorted-speaker order.
C8_CountsPreserved ==
    (component = "collapse_speakers" /\ collapsed)
    => /\ raised = "none"
       /\ \A N \in OutputNames(source) :
             /\ In(N, keys(data))
             /\ Len(GetItem(data, N).list) = SumLen(source, SourcesOf(source, N))
             /\ \A h \in 1..Len(SourcesOf(source, N)) :
                   LET first == SumLen(source,
                                    SubSeq(SourcesOf(source, N), 1, h - 1))
                       from == GetItem(source, SourcesOf(source, N)[h]).list
                   IN \A j \in 1..Len(from) :
                         /\ first + j <= Len(GetItem(data, N).list)
                         /\ GetItem(data, N).list[first + j][1] = from[j][1]

\* The labels of the segments the interval iv selects in a tier
Selected(t, iv) ==
    [j \in 1..(iv[2] - iv[1]) |-> t.list[iv[1] + j][1][2]]

\* C9 (as claimed): after collapse_speakers every interval of an annotation
\* of a merged tier lies within the merged tier it refers to and selects the
\* segments it selected in its speaker's tier before the merge.
C9_IntervalsValid ==
    (component = "collapse_speakers" /\ collapsed)
    => /\ raised = "none"
       /\ \A N \in OutputNames(source) :
             /\ In(N, keys(data))
             /\ \A h \in 1..Len(SourcesOf(source, N)) :
                   LET first == SumLen(source,
                                    SubSeq(SourcesOf(source, N), 1, h - 1))
                       from == GetItem(source, SourcesOf(source, N)[h]).list
                   IN \A j \in 1..Len(from) :
                        \A r \in 1..Len(from[j]) :
                          from[j][r][2].t = "tuple" =>
                            LET old == from[j][r]
                                new == GetItem(data, N).list[first + j][r]
                            IN /\ first + j <= Len(GetItem(data, N).list)
                               /\ new[1] = GetItem(source, old[1]).output_name
                               /\ In(new[1], keys(data))
                               /\ 0 <= new[2].v[1]
                               /\ new[2].v[1] <= new[2].v[2]
                               /\ new[2].v[2] <= Len(GetItem(data, new[1]).list)
                               /\ Selected(GetItem(data, new[1]), new[2].v)
                                    = Selected(GetItem(source, old[1]), old[2].v)

(***************************************************************************)
(* data_to_discourse                                                       *)
(***************************************************************************)
\* The names bound at module level in helper.py (lines 1-591); a name that is
\* neither local, nor one of these, nor a builtin raises NameError
GLOBALS ==
    {"re", "os", "string", "logging", "DelimiterError", "NUMBER_CHARACTERS",
     "Attribute", "BaseAnnotation", "Annotation", "AnnotationType",
     "DiscourseData", "get_corpora_list", "corpus_name_to_path",
     "compile_digraphs", "inspect_directory", "parse_numbers",
     "parse_transcription", "text_to_lines", "find_wav_path",
     "log_annotation_types", "data_to_discourse"}

\* the keys 'spelling', 'word', 'begin' and 'end' of the keyword dicts
SPELLING == PyStr(<<"s", "p", "e", "l", "l", "i", "n", "g">>)
WORD == PyStr(<<"w", "o", "r", "d">>)
BEGIN == PyStr(<<"b", "e", "g", "i", "n">>)
END == PyStr(<<"e", "n", "d">>)

\* A dict is the sequence of its items (key, value) in insertion order
DictHas(d, k) == \E i \in 1..Len(d) : d[i][1] = k

DictGet(d, k) == d[CHOOSE i \in 1..Len(d) : d[i][1] = k][2]

DictSet(d, k, v) ==
    IF DictHas(d, k)
    THEN [i \in 1..Len(d) |-> IF d[i][1] = k THEN <<k, v>> ELSE d[i]]
    ELSE Append(d, <<k, v>>)

\* str.lower() over the characters used in names
Lower(c) == CASE c = "A" -> "a" [] c = "B" -> "b" [] OTHER -> c

\* Attribute.sanitize_name: re.sub('\W', '', name.lower())
sanitize_name(name) ==
    SelectSeq([i \in 1..Len(name) |-> Lower(name[i])],
              LAMBDA c : c \in WORD_CHARACTERS)

\* DiscourseData.mapping(): name -> attribute of the tiers not ignored; the
\* attribute is the one AnnotationType.__init__ builds (lines 287-293)
mapping(d) ==
    LET kept == SelectSeq(d, LAMBDA x : ~x.ignored)
    IN [i \in 1..Len(kept) |->
           <<kept[i].name,
             [name |-> PyStr(sanitize_name(kept[i].name.v)),
              att_type |-> IF kept[i].base THEN "tier" ELSE "spelling"]>>]

\* Annotation.__init__(label, **kwargs): the tuple-valued keywords are the
\* references with their begins and ends
Annotation(label, kwargs) ==
    LET refs == SelectSeq(kwargs, LAMBDA kv : kv[2].t = "tuple")
    IN [label |-> label,
        references |-> [j \in 1..Len(refs) |-> refs[j][1]],
        begins |-> [j \in 1..Len(refs) |-> refs[j][2].v[1]],
        ends |-> [j \in 1..Len(refs) |-> refs[j][2].v[2]],
        token |-> <<>>,
        additional |-> <<>>]

\* list[b:e] for 0 <= b and 0 <= e
Slice(list, b, e) ==
    LET stop == IF e < Len(list) THEN e ELSE Len(list)
    IN IF b >= stop THEN <<>> ELSE SubSeq(list, b + 1, stop)

\* lines 622-633: the loop over s.references from position j; the two keyword
\* dicts afterwards, or the exception raised
RECURSIVE references_loop(_, _, _, _, _, _)
references_loop(d, attribute_mapping, s, j, word_kwargs, word_token_kwargs) ==
    IF j > Len(s.references)
    THEN [raised |-> "none", word_kwargs |-> word_kwargs,
          word_token_kwargs |-> word_token_kwargs]
    ELSE LET r == s.references[j]
         IN IF In(r, keys(d)) /\ Len(GetItem(d, r).list) > 0
            THEN LET seq == Slice(GetItem(d, r).list, s.begins[j], s.ends[j])
                 IN IF ~DictHas(attribute_mapping, r)
                    THEN [raised |-> "KeyError", word_kwargs |-> word_kwargs,
                          word_token_kwargs |-> word_token_kwargs]
                    ELSE LET att == DictGet(attribute_mapping, r)
                         IN IF GetItem(d, r).token
                            THEN LET kept == DictSet(word_token_kwargs,
                                                     att.name, <<att, seq>>)
                                 IN references_loop(d, attribute_mapping, s,
                                        j + 1, word_kwargs,
                                        IF Len(seq) > 0 /\ seq[1].begin # None
                                        THEN DictSet(
                                                DictSet(kept, BEGIN,
                                                        seq[1].begin),
                                                END, seq[Len(seq)].end)
                                        ELSE kept)
                            ELSE references_loop(d, attribute_mapping, s,
                                    j + 1,
                                    DictSet(word_kwargs, att.name,
                                            <<att, seq>>),
                                    word_token_kwargs)
            ELSE references_loop(d, attribute_mapping, s, j + 1,
                                 word_kwargs, word_token_kwargs)

\* lines 607-644: the loops over data.word_levels and over the annotations of
\* a level from position i; the keyword arguments of every WordToken(...)
\* call made, or the exception raised. The word that
\* lexicon.get_or_create_word(**word_kwargs) returns is given as word_kwargs.
RECURSIVE word_levels_loop(_, _, _, _, _, _)
word_levels_loop(d, attribute_mapping, levels, i, ind, tokens) ==
    IF levels = <<>> THEN [raised |-> "none", wordtokens |-> tokens]
    ELSE IF i > Len(GetItem(d, Head(levels)).list)
    THEN word_levels_loop(d, attribute_mapping, Tail(levels), 1, ind, tokens)
    ELSE IF ~DictHas(attribute_mapping, Head(levels))
    THEN [raised |-> "KeyError", wordtokens |-> tokens]
    ELSE LET s == GetItem(d, Head(levels)).list[i]
             r == references_loop(d, attribute_mapping, s, 1,
                    <<<<SPELLING,
                        <<DictGet(attribute_mapping, Head(levels)),
                          s.label>>>>>>,
                    <<>>)
             with_word == DictSet(r.word_token_kwargs, WORD, r.word_kwargs)
             word_token_kwargs ==
                IF ~DictHas(with_word, BEGIN)
                THEN DictSet(DictSet(with_word, BEGIN, PyInt(ind)),
                             END, PyInt(ind + 1))
                ELSE with_word
         IN IF r.raised # "none"
            THEN [raised |-> r.raised, wordtokens |-> tokens]
            ELSE IF "WordToken" \notin GLOBALS
            THEN [raised |-> "NameError", wordtokens |-> tokens]
            ELSE word_levels_loop(d, attribute_mapping, levels, i + 1,
                                  ind + 1, Append(tokens, word_token_kwargs))

\* data_to_discourse(data): line 592 builds the mapping, line 593 evaluates
\* the name Discourse, line 594 sets ind = 0
data_to_discourse(d) ==
    IF "Discourse" \notin GLOBALS
    THEN [raised |-> "NameError", wordtokens |-> <<>>]
    ELSE word_levels_loop(d, mapping(d), word_levels(d), 1, 0, <<>>)

\* The discourses handed to data_to_discourse: a word tier 'w' whose
\* annotations refer to the tiers 'p' and 'm' by intervals, a base tier 'p'
\* of np segments and, when present, a tier 'm' of MaxSegs segments. The
\* segments of a time-aligned tier carry the times t0, t0 + 1, ...
Segments(c, n, timed, t0) ==
    [j \in 1..n |->
        BaseAnnotation(PyStr(<<c, DigitChar(j)>>),
                       IF timed THEN PyInt(t0 + j - 1) ELSE None,
                       IF timed THEN PyInt(t0 + j) ELSE None)]

WordTier(iv, mfirst) ==
    [AnnotationType(W, None, None, TRUE, FALSE, FALSE, None) EXCEPT !.list =
        [j \in 1..Len(iv) |->
            Annotation(PyStr(<<"w", DigitChar(j)>>),
                       IF mfirst
                       THEN <<<<M, PyTuple(iv[j])>>, <<P, PyTuple(iv[j])>>>>
                       ELSE <<<<P, PyTuple(iv[j])>>, <<M, PyTuple(iv[j])>>>>)]]

PhoneTier(np, token, timed) ==
    [AnnotationType(P, None, W, FALSE, token, TRUE, None) EXCEPT !.list =
        Segments("p", np, timed, 10)]

MorphTier(token, timed) ==
    [AnnotationType(M, None, W, FALSE, token, FALSE, None) EXCEPT !.list =
        Segments("m", MaxSegs, timed, 20)]

DiscourseInit ==
    /\ component = "data_to_discourse"
    /\ raised = "none"
    /\ \E np \in 0..MaxSegs, nw \in 0..MaxSegs :
          \E iv \in [1..nw -> Intervals(MaxSegs)] :
             \E ptoken \in BOOLEAN, ptimed \in BOOLEAN, hasM \in BOOLEAN,
                mtoken \in BOOLEAN, mtimed \in BOOLEAN, mfirst \in BOOLEAN :
                data = <<WordTier(iv, mfirst), PhoneTier(np, ptoken, ptimed)>>
                          \o (IF hasM THEN <<MorphTier(mtoken, mtimed)>>
                              ELSE <<>>)
    /\ order = <<>>
    /\ pc = "idle"
    /\ cursor = 0
    /\ placed = FALSE
    /\ stalled = FALSE
    /\ source = <<>>
    /\ collapsed = FALSE
    /\ wordtokens = <<>>
    /\ converted = FALSE
    /\ AddIdle
    /\ CorpusIdle
    /\ AttrIdle
    /\ ParseIdle

\* data_to_discourse(data)
DataToDiscourse ==
    /\ component = "data_to_discourse"
    /\ ~converted
    /\ LET r == data_to_discourse(data)
       IN /\ raised' = r.raised
          /\ wordtokens' = r.wordtokens
    /\ converted' = TRUE
    /\ UNCHANGED <<component, attrVars, parseVars, data, orderVars,
                   collapseVars, addVars, corpusVars>>

DiscourseNext == DataToDiscourse

SpecDiscourse == DiscourseInit /\ [][DiscourseNext]_vars

(***************************************************************************)
(* Claims about data_to_discourse                                          *)
(***************************************************************************)
\* The annotations of the word levels, in the order the tokens are made
RECURSIVE AnnotationsOf(_, _)
AnnotationsOf(d, levels) ==
    IF levels = <<>> THEN <<>>
    ELSE GetItem(d, Head(levels)).list \o AnnotationsOf(d, Tail(levels))

WordAnnotations(d) == AnnotationsOf(d, word_levels(d))

\* The slice reference j of the annotation s selects
SliceOf(d, s, j) ==
    Slice(GetItem(d, s.references[j]).list, s.begins[j], s.ends[j])

\* The references of s that resolve to a non-empty slice of time-aligned
\* segments
TimeAligned(d, s) ==
    {j \in 1..Len(s.references) :
        /\ In(s.references[j], keys(d))
        /\ Len(GetItem(d, s.references[j]).list) > 0
        /\ SliceOf(d, s, j) # <<>>
        /\ SliceOf(d, s, j)[1].begin # None}

\* C10 (as claimed): after data_to_discourse every word annotation has its
\* token; if a resolved reference of the annotation yields a non-empty
\* time-aligned slice, the token's begin/end are the first segment's begin
\* and the last segment's end of such a slice; otherwise they are the
\* counter values (ind, ind + 1), ind the number of tokens made before, and
\* the counter values strictly increase from token to token.
C10_BeginEndOneSource ==
    (component = "data_to_discourse" /\ converted)
    => /\ raised = "none"
       /\ Len(wordtokens) = Len(WordAnnotations(data))
       /\ \A i \in 1..Len(wordtokens) :
             LET s == WordAnnotations(data)[i]
                 begin == DictGet(wordtokens[i], BEGIN)
                 end == DictGet(wordtokens[i], END)
             IN IF TimeAligned(data, s) # {}
                THEN \E j \in TimeAligned(data, s) :
                        /\ begin = SliceOf(data, s, j)[1].begin
                        /\ end = SliceOf(data, s, j)[Len(SliceOf(data, s, j))].end
                ELSE begin = PyInt(i - 1) /\ end = PyInt(i)
       /\ \A i \in 1..Len(wordtokens) : \A k \in (i + 1)..Len(wordtokens) :
             (/\ TimeAligned(data, WordAnnotations(data)[i]) = {}
              /\ TimeAligned(data, WordAnnotations(data)[k]) = {})
             => DictGet(wordtokens[i], BEGIN).v < DictGet(wordtokens[k], BEGIN).v

(***************************************************************************)
(* CorpusContext: the discourses handed to it                              *)
(***************************************************************************)
\* lines 448-457: one pass of the for loop over self.data.items() from tier i
RECURSIVE for_loop(_, _, _)
for_loop(d, i, o) ==
    IF i > Len(d) THEN o ELSE for_loop(d, i + 1, ForBody(d[i], o))

\* lines 447-458: the while loop; a pass that leaves order as it found it is
\* followed by the same pass for ever, and the property never returns
RECURSIVE while_loop(_, _)
while_loop(d, o) ==
    IF ~WhileCondition(d, o) THEN [returns |-> TRUE, order |-> o]
    ELSE IF for_loop(d, 1, o) = o THEN [returns |-> FALSE, order |-> o]
    ELSE while_loop(d, for_loop(d, 1, o))

\* DiscourseData.process_order
process_order(d) == while_loop(d, word_levels(d))

\* Annotation.__getitem__: the interval of the reference key, or None
Annotation_getitem(self, key) ==
    IF \E i \in 1..Len(self.references) : self.references[i] = key
    THEN LET i == CHOOSE k \in 1..Len(self.references) :
                      /\ self.references[k] = key
                      /\ \A h \in 1..(k - 1) : self.references[h] # key
         IN PyTuple(<<self.begins[i], self.ends[i]>>)
    ELSE None

TRANSCRIPTION ==
    PyStr(<<"t", "r", "a", "n", "s", "c", "r", "i", "p", "t", "i", "o", "n">>)

\* An annotation of a word level as the projection reads it: an Annotation
\* with its type-property mapping (spec 3, Annotation)
TypedAnnotation(label, kwargs, type_properties) ==
    [label |-> label,
     references |-> Annotation(label, kwargs).references,
     begins |-> Annotation(label, kwargs).begins,
     ends |-> Annotation(label, kwargs).ends,
     token |-> <<>>,
     additional |-> <<>>,
     type_properties |-> type_properties]

\* data.output_types: the tier-type names of the discourse, every word level
\* named 'word' (corpus.py 180-189, 244-249 read it so)
RECURSIVE output_types_from(_, _, _)
output_types_from(d, i, labs) ==
    IF i > Len(d) THEN labs
    ELSE LET x == IF d[i].anchor THEN WORD ELSE d[i].name
         IN output_types_from(d, i + 1,
                IF In(x, labs) THEN labs ELSE Append(labs, x))

output_types(d) == output_types_from(d, 1, <<>>)

\* data.is_timed: the timed/untimed flag of the discourse: a base tier holds
\* time-aligned segments
is_timed(d) ==
    \E i \in 1..Len(d) :
        d[i].base /\ Len(d[i].list) > 0 /\ d[i].list[1].begin # None

(***************************************************************************)
(* CorpusContext.update_sql_database                                       *)
(***************************************************************************)
\* The tables of the relational store; a row is [key, value]: the natural
\* key it was created by and its other columns
EmptyTables ==
    [discourse |-> <<>>, annotation_type |-> <<>>, inventory_item |-> <<>>,
     word |-> <<>>, word_property_type |-> <<>>, word_property |-> <<>>]

\* The models corpus.py imports from .sql.models (lines 16-17)
SQL_MODELS ==
    {"Base", "Word", "WordProperty", "WordPropertyType", "InventoryItem",
     "AnnotationType", "SoundFile", "Discourse"}

\* get_or_create(session, model, defaults, **kwargs): upsert by natural key
\* (spec 6): the session with the row added when no row has the key
get_or_create(session, model, defaults, kwargs) ==
    [session EXCEPT
        ![model] = IF \E i \in 1..Len(@) : @[i].key = kwargs
                   THEN @
                   ELSE Append(@, [key |-> kwargs, value |-> defaults])]

\* lines 275-278 and 286-289: get_or_create of an InventoryItem per label
RECURSIVE inventory_loop(_, _, _)
inventory_loop(session, labels, annotation_type) ==
    IF labels = <<>> THEN session
    ELSE inventory_loop(
            get_or_create(session, "inventory_item", <<>>,
                [label |-> Head(labels), annotation_type |-> annotation_type]),
            Tail(labels), annotation_type)

\* line 296: word.frequency += 1 on the row of the key
increment_frequency(session, kwargs) ==
    [session EXCEPT !.word =
        [i \in 1..Len(@) |->
            IF @[i].key = kwargs
            THEN [@[i] EXCEPT !.value.frequency = @ + 1]
            ELSE @[i]]]

\* lines 297-311: the rows of the type properties of one word; a numeric
\* value needs the model WordNumericProperty
RECURSIVE type_properties_loop(_, _, _, _)
type_properties_loop(session, word, items, k) ==
    IF k > Len(items) THEN [raised |-> "none", session |-> session]
    ELSE IF items[k][2] = None
    THEN type_properties_loop(session, word, items, k + 1)
    ELSE LET typed == get_or_create(session, "word_property_type", <<>>,
                                    [label |-> items[k][1]])
             v == items[k][2]
         IN IF v.t = "int"
            THEN IF "WordNumericProperty" \notin SQL_MODELS
                 THEN [raised |-> "NameError", session |-> typed]
                 ELSE type_properties_loop(
                        get_or_create(typed, "word_property", <<>>,
                            [word |-> word, property_type |-> items[k][1],
                             value |-> v]),
                        word, items, k + 1)
            ELSE type_properties_loop(
                    get_or_create(typed, "word_property", <<>>,
                        [word |-> word, property_type |-> items[k][1],
                         value |-> IF v.t = "list"
                                   THEN PyStr(join(<<".">>,
                                        [h \in 1..Len(v.v) |-> v.v[h].v]))
                                   ELSE v]),
                    word, items, k + 1)

\* lines 265-282: the transcription of the word ann before it is joined
derived_trans(d, ann) ==
    IF Len(base_levels(d)) > 0
    THEN LET b == base_levels(d)[1]
             interval == Annotation_getitem(ann, b)
             base_sequence == Slice(GetItem(d, b).list,
                                    interval.v[1], interval.v[2])
         IN IF DictHas(ann.type_properties, TRANSCRIPTION)
            THEN DictGet(ann.type_properties, TRANSCRIPTION)
            ELSE IF ~GetItem(d, b).token
            THEN PyList([h \in 1..Len(base_sequence) |->
                            base_sequence[h].label])
            ELSE None
    ELSE None

\* lines 283-290: '' for None, '.'.join(trans) for a list
joined_trans(trans) ==
    IF trans = None THEN PyStr(<<>>)
    ELSE IF trans.t = "list"
    THEN PyStr(join(<<".">>, [h \in 1..Len(trans.v) |-> trans.v[h].v]))
    ELSE trans

\* lines 262-311: the loop over the annotations of the first level of
\* process_order from position j; the session afterwards and the exception
\* raised. The dicts annotation_types, inventory_items, words and
\* word_property_types hold what get_or_create returned earlier in the call.
RECURSIVE sql_words_loop(_, _, _, _)
sql_words_loop(d, anns, j, session) ==
    IF j > Len(anns) THEN [raised |-> "none", session |-> session]
    ELSE IF /\ Len(base_levels(d)) > 0
            /\ Annotation_getitem(anns[j], base_levels(d)[1]) = None
    THEN [raised |-> "TypeError", session |-> session]  \* begin, end = None
    ELSE LET ann == anns[j]
             b == base_levels(d)[1]
             based ==
                IF Len(base_levels(d)) > 0
                THEN inventory_loop(
                        get_or_create(session, "annotation_type", <<>>,
                                      [label |-> b]),
                        Labels(Slice(GetItem(d, b).list,
                                     Annotation_getitem(ann, b).v[1],
                                     Annotation_getitem(ann, b).v[2])),
                        b)
                ELSE session
             trans == derived_trans(d, ann)
             transcribed ==
                IF trans # None /\ trans.t = "list"
                THEN inventory_loop(based, trans.v, TRANSCRIPTION)
                ELSE based
             kwargs == [orthography |-> ann.label,
                        transcription |-> joined_trans(trans)]
             counted ==
                increment_frequency(
                    get_or_create(transcribed, "word", [frequency |-> 0],
                                  kwargs),
                    kwargs)
             r == type_properties_loop(counted, kwargs,
                                       ann.type_properties, 1)
         IN IF r.raised # "none" THEN r
            ELSE sql_words_loop(d, anns, j + 1, r.session)

\* update_sql_database(data): the session afterwards, the exception raised,
\* and whether the call returns at all (data.process_order may not)
update_sql_database(session, name, d) ==
    LET named == get_or_create(
                    get_or_create(session, "discourse", <<>>,
                                  [name |-> name]),
                    "annotation_type", <<>>, [label |-> TRANSCRIPTION])
        po == process_order(d)
    IN IF ~po.returns
       THEN [returns |-> FALSE, raised |-> "none", session |-> named]
       ELSE IF po.order = <<>>
       THEN [returns |-> TRUE, raised |-> "none", session |-> named]
       ELSE LET r == sql_words_loop(d, GetItem(d, po.order[1]).list, 1,
                                    named)
            IN [returns |-> TRUE, raised |-> r.raised,
                session |-> r.session]

(***************************************************************************)
(* CorpusContext.import_csvs                                               *)
(***************************************************************************)
ANCHOR == PyStr(<<"A", "n", "c", "h", "o", "r">>)
LABEL == PyStr(<<"l", "a", "b", "e", "l">>)
TIME == PyStr(<<"t", "i", "m", "e">>)
ID == PyStr(<<"i", "d">>)

\* A statement handed to self.graph.cypher.execute: what it does, the node
\* or relationship label (on: "node", "type" for :<at>_type, "rel" for
\* :r_<at>) and the property it names
Statement(op, on, label, property) ==
    [op |-> op, on |-> on, label |-> label, property |-> property]

\* The keys of a dict of the annotations of the word levels, first seen first
RECURSIVE property_keys(_, _, _)
property_keys(anns, field, labs) ==
    IF anns = <<>> THEN labs
    ELSE LET ks == [k \in 1..Len(Head(anns)[field]) |-> Head(anns)[field][k][1]]
             new == SelectSeq(ks, LAMBDA x : ~In(x, labs))
         IN property_keys(Tail(anns), field, labs \o new)

\* data.token_properties and data.type_properties: the names of the token
\* and type properties the word annotations carry (spec 3, Annotation)
token_properties(d) ==
    property_keys(AnnotationsOf(d, word_levels(d)), "token", <<>>)

type_properties(d) ==
    property_keys(AnnotationsOf(d, word_levels(d)), "type_properties", <<>>)

\* lines 180-183 and 197-200: a CREATE INDEX per property of the word type
property_indexes(on, at, properties) ==
    [k \in 1..Len(properties) |->
        Statement("CREATE INDEX", on, at, properties[k])]

\* lines 174-225: the loop over annotation_types from position i; the
\* statements executed so far, or the exception raised
RECURSIVE import_types_loop(_, _, _, _)
import_types_loop(d, types, i, executed) ==
    IF i > Len(types) THEN [raised |-> "none", graph |-> executed]
    ELSE LET at == types[i]
             constrained ==
                Append(executed,
                       Statement("CREATE CONSTRAINT", "node", at, ID))
             tokens == IF at = WORD
                       THEN property_indexes("node", at, token_properties(d))
                       ELSE <<>>
         IN IF at = WORD /\ word_levels(d) = <<>>
            THEN [raised |-> "IndexError", graph |-> constrained \o tokens]
            ELSE IF at # WORD /\ ~In(at, keys(d))
            THEN [raised |-> "KeyError", graph |-> constrained]
            ELSE LET st0 == IF at = WORD
                            THEN GetItem(d, word_levels(d)[1]).supertype
                            ELSE GetItem(d, at).supertype
                 IN IF st0 # None /\ ~In(st0, keys(d))
                    THEN [raised |-> "KeyError",
                          graph |-> constrained \o tokens]
                    ELSE LET st == IF st0 # None /\ GetItem(d, st0).anchor
                                   THEN WORD ELSE st0
                             types_ == IF at = WORD
                                       THEN property_indexes("type", at,
                                                type_properties(d))
                                       ELSE <<>>
                         IN import_types_loop(d, types, i + 1,
                              constrained \o tokens \o types_
                                \o <<Statement("CREATE INDEX", "node", at,
                                               LABEL),
                                     Statement("CREATE INDEX", "rel", at,
                                               LABEL)>>
                                \o (IF st # None
                                    THEN <<Statement("CREATE INDEX", "node",
                                                     at, st)>>
                                    ELSE <<>>)
                                \o <<Statement("LOAD CSV", "rel", at,
                                               None)>>)

\* import_csvs(data): the statements executed on the graph store, in order
import_csvs(executed, d) ==
    LET r == import_types_loop(d, output_types(d), 1,
                executed
                  \o <<Statement("LOAD CSV", "node", ANCHOR, None),
                       Statement("CREATE INDEX", "node", ANCHOR, TIME),
                       Statement("CREATE CONSTRAINT", "node", ANCHOR, ID)>>)
    IN IF r.raised # "none" THEN r
       ELSE [raised |-> "none",
             graph |-> r.graph
                \o <<Statement("DROP CONSTRAINT", "node", ANCHOR, ID),
                     Statement("REMOVE", "node", ANCHOR, ID)>>]

(***************************************************************************)
(* CorpusContext.add_discourse, statement by statement                     *)
(***************************************************************************)
\* A call in progress: where it stands (the statement it executes next), the
\* discourse [name, tiers] it was given, the position of its for loop and
\* the exception it raised
Call(D) == [pc |-> "data_to_graph_csvs", data |-> D, k |-> 0,
            raised |-> "none"]

\* the set of the elements of a list
Range(list) == {list[i] : i \in 1..Len(list)}

\* A mis-written loop body: the supertype is stored under its tier name, a
\* word level not replaced by 'word'.
hierarchy_body_unmapped(d, hierarchy, x) ==
    IF x = WORD
    THEN IF word_levels(d) = <<>>
         THEN [raised |-> "IndexError", hierarchy |-> hierarchy]
         ELSE [raised |-> "none",
               hierarchy |-> DictSet(hierarchy, x,
                                GetItem(d, word_levels(d)[1]).supertype)]
    ELSE IF ~In(x, keys(d))
    THEN [raised |-> "KeyError", hierarchy |-> hierarchy]
    ELSE [raised |-> "none",
          hierarchy |-> DictSet(hierarchy, x, GetItem(d, x).supertype)]

\* lines 244-250: the body of the for loop for the type x
hierarchy_body(d, hierarchy, x) ==
    IF x = WORD
    THEN IF word_levels(d) = <<>>
         THEN [raised |-> "IndexError", hierarchy |-> hierarchy]
         ELSE [raised |-> "none",
               hierarchy |-> DictSet(hierarchy, x,
                                GetItem(d, word_levels(d)[1]).supertype)]
    ELSE IF ~In(x, keys(d))
    THEN [raised |-> "KeyError", hierarchy |-> hierarchy]
    ELSE LET supertype == GetItem(d, x).supertype
         IN IF supertype # None /\ ~In(supertype, keys(d))
            THEN [raised |-> "KeyError", hierarchy |-> hierarchy]
            ELSE [raised |-> "none",
                  hierarchy |-> DictSet(hierarchy, x,
                                    IF supertype # None
                                       /\ GetItem(d, supertype).anchor
                                    THEN WORD ELSE supertype)]

\* The statement of add_discourse the call t executes next, on the store
\* S = [context, graph, session]: the store and the call afterwards.
\* data_to_graph_csvs walks the tiers in dependency order (spec 4.5) and
\* writes files only; add_acoustic_info does nothing for a discourse without
\* an audio path (spec 6).
add_discourse_step(S, t) ==
    LET d == t.data.tiers
    IN CASE t.pc = "data_to_graph_csvs" ->
              [S |-> S,
               t |-> [t EXCEPT !.pc = IF process_order(d).returns
                                      THEN "import_csvs" ELSE "hung"]]
         [] t.pc = "import_csvs" ->
              LET r == import_csvs(S.graph, d)
              IN [S |-> [S EXCEPT !.graph = r.graph],
                  t |-> [t EXCEPT !.raised = r.raised,
                                  !.pc = IF r.raised = "none"
                                         THEN "relationship_types"
                                         ELSE "raised"]]
         [] t.pc = "relationship_types" ->
              [S |-> [S EXCEPT !.context.relationship_types =
                                    @ \cup Range(output_types(d))],
               t |-> [t EXCEPT !.pc = "is_timed"]]
         [] t.pc = "is_timed" ->
              [S |-> [S EXCEPT !.context.is_timed = is_timed(d)],
               t |-> [t EXCEPT !.pc = "update_sql_database"]]
         [] t.pc = "update_sql_database" ->
              LET r == update_sql_database(S.session, t.data.name, d)
              IN [S |-> [S EXCEPT !.session = r.session],
                  t |-> [t EXCEPT !.raised = r.raised,
                                  !.pc = IF ~r.returns THEN "hung"
                                         ELSE IF r.raised = "none"
                                         THEN "add_acoustic_info"
                                         ELSE "raised"]]
         [] t.pc = "add_acoustic_info" ->
              [S |-> S, t |-> [t EXCEPT !.pc = "hierarchy"]]
         [] t.pc = "hierarchy" ->
              [S |-> [S EXCEPT !.context.hierarchy = <<>>],
               t |-> [t EXCEPT !.k = 1,
                               !.pc = IF output_types(d) = <<>>
                                      THEN "done" ELSE "for"]]
         [] t.pc = "for" ->
              LET r == hierarchy_body(d, S.context.hierarchy,
                                      output_types(d)[t.k])
              IN [S |-> [S EXCEPT !.context.hierarchy = r.hierarchy],
                  t |-> [t EXCEPT !.raised = r.raised,
                                  !.k = @ + 1,
                                  !.pc = IF r.raised # "none" THEN "raised"
                                         ELSE IF t.k < Len(output_types(d))
                                         THEN "for" ELSE "done"]]

\* a call that executes no further statement
Stopped(t) == t.pc \in {"done", "raised", "hung"}

\* add_discourse(data) run from the call t to its end
RECURSIVE add_discourse_from(_, _)
add_discourse_from(S, t) ==
    IF Stopped(t) THEN [S |-> S, t |-> t]
    ELSE CHOOSE r \in {add_discourse_from(next.S, next.t) :
                            next \in {add_discourse_step(S, t)}} : TRUE

add_discourse(S, D) == add_discourse_from(S, Call(D))

(***************************************************************************)
(* CorpusContext: variables, sessions and resets                           *)
(***************************************************************************)
\* __init__ (lines 59-61)
CorpusContext ==
    [relationship_types |-> {}, is_timed |-> FALSE, hierarchy |-> <<>>]

\* A mis-written load_variables: the file is never read.
load_variables_defaults(self, file) ==
    [self EXCEPT !.relationship_types = {},
                 !.is_timed = FALSE,
                 !.hierarchy = <<>>]

\* load_variables(): the pickled values, or the defaults when there is no
\* file
load_variables(self, file) ==
    IF file # None
    THEN [self EXCEPT !.relationship_types = file.relationship_types,
                      !.is_timed = file.is_timed,
                      !.hierarchy = file.hierarchy]
    ELSE [self EXCEPT !.relationship_types = {},
                      !.is_timed = FALSE,
                      !.hierarchy = <<>>]

\* save_variables(): the contents of the file afterwards
save_variables(self) ==
    [relationship_types |-> self.relationship_types,
     is_timed |-> self.is_timed,
     hierarchy |-> self.hierarchy]

\* __exit__(exc_type, exc, exc_tb): the relational store afterwards:
\* commit() writes the session to the database, rollback() discards it
exit_session(store, exc_type) ==
    IF exc_type = None
    THEN [session |-> store.session, db |-> store.session]
    ELSE [session |-> store.db, db |-> store.db]

IS_A == PyStr(<<"i", "s", "_", "a">>)
CORPUS_NAME == PyStr(<<"c">>)

\* A mis-written reset_graph: relationship_types is left as it is.
reset_graph_keeps_types(S) ==
    [S EXCEPT !.graph = @ \o <<Statement("DELETE", "rel", IS_A, None),
                                Statement("DELETE", "node", CORPUS_NAME,
                                          None)>>]

\* reset_graph(): the two DELETE statements and the emptied set
reset_graph(S) ==
    [S EXCEPT !.graph = @ \o <<Statement("DELETE", "rel", IS_A, None),
                                Statement("DELETE", "node", CORPUS_NAME,
                                          None)>>,
              !.context.relationship_types = {}]

\* A mis-written reset: the tables are not dropped.
reset_keeps_tables(S) == reset_graph(S)

\* reset(): reset_graph(), then all tables dropped and created again
reset(S) ==
    [reset_graph(S) EXCEPT !.session = EmptyTables, !.db = EmptyTables]

(***************************************************************************)
(* The discourses imported into the corpus                                 *)
(***************************************************************************)
MaxOps == 4         \* operations on one CorpusContext

V == PyStr(<<"v">>)
CAT == PyStr(<<"c", "a", "t">>)
DOG == PyStr(<<"d", "o", "g">>)

\* the base segments of the words, every word spelled by its phones
RECURSIVE PhonesOf(_)
PhonesOf(words) ==
    IF words = <<>> THEN <<>>
    ELSE [i \in 1..Len(Head(words).v) |-> PyStr(<<Head(words).v[i]>>)]
            \o PhonesOf(Tail(words))

\* word j covers the phones [3 (j - 1), 3 j)
WordsOn(name, words, super) ==
    [AnnotationType(name, None, super, name = W, FALSE, FALSE, None)
     EXCEPT !.list =
        [j \in 1..Len(words) |->
            TypedAnnotation(words[j],
                <<<<P, PyTuple(<<3 * (j - 1), 3 * j>>)>>>>, <<>>)]]

PhonesOn(words, timed, super) ==
    [AnnotationType(P, None, super, FALSE, timed, TRUE, None)
     EXCEPT !.list =
        [i \in 1..Len(PhonesOf(words)) |->
            BaseAnnotation(PhonesOf(words)[i],
                           IF timed THEN PyInt(i - 1) ELSE None,
                           IF timed THEN PyInt(i) ELSE None)]]

\* a second word level: one annotation over all the phones
SecondLevel(words) ==
    [AnnotationType(V, None, None, TRUE, FALSE, FALSE, None)
     EXCEPT !.list =
        <<TypedAnnotation(DOG,
            <<<<P, PyTuple(<<0, Len(PhonesOf(words))>>)>>>>, <<>>)>>]

Shapes == {"plain", "morph", "two"}

CorpusDiscourse(shape, timed, words) ==
    [name |-> PyStr(<<"d">>),
     tiers |->
        CASE shape = "plain" ->
                <<WordsOn(W, words, None), PhonesOn(words, timed, W)>>
          [] shape = "morph" ->
                <<WordsOn(W, words, None), WordsOn(M, words, W),
                  PhonesOn(words, timed, M)>>
          [] shape = "two" ->
                <<WordsOn(W, words, None), SecondLevel(words),
                  PhonesOn(words, timed, W)>>]

CorpusDiscourses ==
    {CorpusDiscourse(shape, timed, words) :
        shape \in Shapes, timed \in BOOLEAN,
        words \in {<<CAT, CAT>>, <<CAT, DOG>>}}

(***************************************************************************)
(* One CorpusContext used by one caller                                    *)
(***************************************************************************)
Store == [context |-> context, graph |-> graph,
          session |-> sql.session, db |-> sql.db]

\* the last of 'enter' and 'exit' in the journal is an 'enter'
RECURSIVE Entered(_)
Entered(j) ==
    IF j = <<>> THEN FALSE
    ELSE IF j[Len(j)].op = "enter" THEN TRUE
    ELSE IF j[Len(j)].op = "exit" THEN FALSE
    ELSE Entered(SubSeq(j, 1, Len(j) - 1))

\* what the journal keeps of an operation: its name, its argument, the
\* exception it raised, and the store before and after it
Entry(op, arg, exception, before, after) ==
    [op |-> op, arg |-> arg, raised |-> exception,
     before |-> before, after |-> after]

CorpusInit ==
    /\ component = "CorpusContext"
    /\ raised = "none"
    /\ context = CorpusContext
    /\ graph = <<>>
    /\ sql = [session |-> EmptyTables, db |-> EmptyTables]
    /\ variables = None
    /\ threads = <<>>
    /\ journal = <<>>
    /\ AddIdle
    /\ AttrIdle
    /\ ParseIdle
    /\ data = <<>>
    /\ order = <<>>
    /\ pc = "idle"
    /\ cursor = 0
    /\ placed = FALSE
    /\ stalled = FALSE
    /\ source = <<>>
    /\ collapsed = FALSE
    /\ wordtokens = <<>>
    /\ converted = FALSE

\* the store as the journal keeps it: the graph by the number of statements
\* executed
Snapshot(S) ==
    [context |-> S.context, session |-> S.session, db |-> S.db,
     executed |-> Len(S.graph)]

\* with CorpusContext(...) as c: __enter__ loads the variables and opens a
\* session
Enter ==
    /\ component = "CorpusContext"
    /\ Len(journal) < MaxOps
    /\ ~Entered(journal)
    /\ context' = load_variables(context, variables)
    /\ sql' = [session |-> sql.db, db |-> sql.db]
    /\ journal' = Append(journal,
            Entry("enter", None, "none", Snapshot(Store),
                  Snapshot([Store EXCEPT !.context = context',
                                         !.session = sql.db])))
    /\ UNCHANGED <<component, raised, attrVars, parseVars, data, orderVars,
                   collapseVars, discourseVars, addVars, graph, variables,
                   threads>>

\* the with block ends, normally (exc_type None) or by an exception
Exit(exc_type) ==
    /\ component = "CorpusContext"
    /\ Len(journal) < MaxOps
    /\ Entered(journal)
    /\ variables' = save_variables(context)
    /\ sql' = exit_session(sql, exc_type)
    /\ journal' = Append(journal,
            Entry("exit", exc_type, "none", Snapshot(Store),
                  Snapshot([Store EXCEPT !.session = sql'.session,
                                         !.db = sql'.db])))
    /\ UNCHANGED <<component, raised, attrVars, parseVars, data, orderVars,
                   collapseVars, discourseVars, addVars, context, graph,
                   threads>>

\* c.add_discourse(D)
AddDiscourse(D) ==
    /\ component = "CorpusContext"
    /\ Len(journal) < MaxOps
    /\ Entered(journal)
    /\ \E r \in {add_discourse(Store, D)} :
          /\ context' = r.S.context
          /\ graph' = r.S.graph
          /\ sql' = [session |-> r.S.session, db |-> r.S.db]
          /\ raised' = r.t.raised
          /\ journal' = Append(journal,
                Entry("add_discourse", D, r.t.raised, Snapshot(Store),
                      Snapshot(r.S)))
    /\ UNCHANGED <<component, attrVars, parseVars, data, orderVars,
                   collapseVars, discourseVars, addVars, variables, threads>>

\* c.reset_graph()
ResetGraph ==
    /\ component = "CorpusContext"
    /\ Len(journal) < MaxOps
    /\ LET S == reset_graph(Store)
       IN /\ context' = S.context
          /\ graph' = S.graph
          /\ journal' = Append(journal,
                Entry("reset_graph", None, "none", Snapshot(Store),
                      Snapshot(S)))
    /\ UNCHANGED <<component, raised, attrVars, parseVars, data, orderVars,
                   collapseVars, discourseVars, addVars, sql, variables,
                   threads>>

\* c.reset()
Reset ==
    /\ component = "CorpusContext"
    /\ Len(journal) < MaxOps
    /\ LET S == reset(Store)
       IN /\ context' = S.context
          /\ graph' = S.graph
          /\ sql' = [session |-> S.session, db |-> S.db]
          /\ journal' = Append(journal,
                Entry("reset", None, "none", Snapshot(Store), Snapshot(S)))
    /\ UNCHANGED <<component, raised, attrVars, parseVars, data, orderVars,
                   collapseVars, discourseVars, addVars, variables, threads>>

CorpusNext ==
    \/ Enter
    \/ \E exc_type \in {None, PyStr(<<"E">>)} : Exit(exc_type)
    \/ \E D \in CorpusDiscourses : AddDiscourse(D)
    \/ ResetGraph
    \/ Reset

SpecCorpus == CorpusInit /\ [][CorpusNext]_vars

(***************************************************************************)
(* Claims about the lexicon, resets and the graph statements               *)
(***************************************************************************)
\* the calls of add_discourse the journal holds
AddDiscourseCalls == {e \in 1..Len(journal) : journal[e].op = "add_discourse"}

\* the (orthography, derived transcription) pair of every annotation of
\* every word level of d
WordKeys(d) ==
    [i \in 1..Len(WordAnnotations(d)) |->
        [orthography |-> WordAnnotations(d)[i].label,
         transcription |->
            joined_trans(derived_trans(d, WordAnnotations(d)[i]))]]

RECURSIVE SumFrequency(_)
SumFrequency(rows) ==
    IF rows = <<>> THEN 0
    ELSE Head(rows).value.frequency + SumFrequency(Tail(rows))

\* C11 (as claimed): after a discourse is imported into an empty lexicon
\* there is exactly one word record per distinct (orthography, derived
\* transcription) pair of its word-level annotations, the frequency of each
\* record is the number of word-level annotations with its pair, and the
\* frequencies sum to the number of word tokens over all word-level tiers.
C11_FrequencyOncePerToken ==
    \A e \in AddDiscourseCalls :
        journal[e].before.session.word = <<>>
        => LET pairs == WordKeys(journal[e].arg.tiers)
               rows == journal[e].after.session.word
           IN /\ \A i \in 1..Len(pairs) :
                    Cardinality({k \in 1..Len(rows) :
                                    rows[k].key = pairs[i]}) = 1
              /\ \A k \in 1..Len(rows) :
                    rows[k].value.frequency =
                        Cardinality({i \in 1..Len(pairs) :
                                        pairs[i] = rows[k].key})
              /\ SumFrequency(rows) = Len(pairs)

\* C11 holds of the discourses with one word level
C11_OneWordLevel ==
    \A e \in AddDiscourseCalls :
        (/\ journal[e].before.session.word = <<>>
         /\ Len(word_levels(journal[e].arg.tiers)) = 1)
        => LET pairs == WordKeys(journal[e].arg.tiers)
               rows == journal[e].after.session.word
           IN /\ \A i \in 1..Len(pairs) :
                    Cardinality({k \in 1..Len(rows) :
                                    rows[k].key = pairs[i]}) = 1
              /\ \A k \in 1..Len(rows) :
                    rows[k].value.frequency =
                        Cardinality({i \in 1..Len(pairs) :
                                        pairs[i] = rows[k].key})
              /\ SumFrequency(rows) = Len(pairs)

\* a corpus nothing was imported into
EmptyCorpus ==
    [context |-> CorpusContext, graph |-> <<>>,
     session |-> EmptyTables, db |-> EmptyTables]

\* the calls of add_discourse that directly follow a reset()
AfterReset == {e \in AddDiscourseCalls : e > 1 /\ journal[e - 1].op = "reset"}

\* C12: reset(); add_discourse(D) leaves the relational rows, the word
\* frequencies among them, and relationship_types as add_discourse(D) into
\* an empty corpus leaves them, whatever was imported before the reset.
C12_ReimportAfterReset ==
    \A e \in AfterReset :
        LET first == add_discourse(EmptyCorpus, journal[e].arg).S
        IN /\ journal[e].after.session = first.session
           /\ journal[e].after.context.relationship_types
                = first.context.relationship_types

\* a discourse is imported again after a reset that followed the import of
\* another discourse, whose words were in the lexicon
C12_Witness ==
    \E e \in AfterReset :
        /\ journal[e - 1].before.session.word # <<>>
        /\ journal[e - 1].before.context.relationship_types # {}
        /\ e > 2
        /\ journal[e - 2].op = "add_discourse"
        /\ journal[e - 2].arg # journal[e].arg
        /\ journal[e].after.session.word # <<>>

\* the statements the call e of add_discourse executed on the graph store:
\* those of its import_csvs
Issued(e) ==
    SubSeq(graph, journal[e].before.executed + 1, journal[e].after.executed)

\* in the statements issued, the constraint and the indexes of every type
\* come before the bulk edge creation of the type
IssuedBeforeBulkLoad(issued) ==
    \A i \in 1..Len(issued) :
        (issued[i].op = "LOAD CSV" /\ issued[i].on = "rel")
        => /\ \E c \in 1..(i - 1) :
                issued[c] = Statement("CREATE CONSTRAINT", "node",
                                      issued[i].label, ID)
           /\ \E x \in 1..(i - 1) :
                issued[x] = Statement("CREATE INDEX", "node",
                                      issued[i].label, LABEL)
           /\ \A x \in 1..Len(issued) :
                (/\ issued[x].op \in {"CREATE INDEX", "CREATE CONSTRAINT"}
                 /\ issued[x].label = issued[i].label)
                => x < i

\* in the statements issued, every constraint created is dropped later
ConstraintsDropped(issued) ==
    \A c \in 1..Len(issued) :
        issued[c].op = "CREATE CONSTRAINT"
        => \E x \in (c + 1)..Len(issued) :
                issued[x] = Statement("DROP CONSTRAINT", issued[c].on,
                                      issued[c].label, issued[c].property)

\* C13 (as claimed): in import_csvs the uniqueness constraint and the
\* label/property indexes of every annotation type are issued before the
\* bulk edge-creation statement of that type, and every uniqueness
\* constraint import_csvs created (Anchor and each per-type one) has been
\* dropped by the time it returns.
C13_ConstraintsRetracted ==
    \A e \in AddDiscourseCalls :
        /\ IssuedBeforeBulkLoad(Issued(e))
        /\ ConstraintsDropped(Issued(e))

\* the ordering half of C13 holds
C13_IssuedBeforeBulkLoad ==
    \A e \in AddDiscourseCalls : IssuedBeforeBulkLoad(Issued(e))

(***************************************************************************)
(* Two callers of add_discourse on one CorpusContext                       *)
(***************************************************************************)
\* discourses whose supertype references are cyclic (m over v over m) or
\* dangling (m over x, which is no tier)
CyclicDiscourse ==
    [name |-> PyStr(<<"y">>),
     tiers |-> <<WordsOn(W, <<CAT, DOG>>, None),
                 AnnotationType(M, None, V, FALSE, FALSE, FALSE, None),
                 AnnotationType(V, None, M, FALSE, FALSE, FALSE, None),
                 PhonesOn(<<CAT, DOG>>, FALSE, W)>>]

DanglingDiscourse ==
    [name |-> PyStr(<<"x">>),
     tiers |-> <<WordsOn(W, <<CAT, DOG>>, None),
                 AnnotationType(M, None, X, FALSE, FALSE, FALSE, None),
                 PhonesOn(<<CAT, DOG>>, TRUE, W)>>]

ThreadDiscourses ==
    {CorpusDiscourse("plain", TRUE, <<CAT, DOG>>),
     CorpusDiscourse("morph", FALSE, <<CAT, CAT>>),
     CorpusDiscourse("two", FALSE, <<CAT, DOG>>),
     CyclicDiscourse, DanglingDiscourse}

\* Two calls of add_discourse on one context of an empty corpus; serialized:
\* the callers hold a mutex around add_discourse (spec 5), so a call starts
\* only when the other is not under way
ThreadsInit ==
    /\ component = "add_discourse"
    /\ raised = "none"
    /\ context = CorpusContext
    /\ graph = <<>>
    /\ sql = [session |-> EmptyTables, db |-> EmptyTables]
    /\ variables = None
    /\ \E serialized \in BOOLEAN, D1, D2 \in ThreadDiscourses :
          threads = [serialized |-> serialized,
                     calls |-> <<Call(D1), Call(D2)>>]
    /\ journal = <<>>
    /\ AddIdle
    /\ AttrIdle
    /\ ParseIdle
    /\ data = <<>>
    /\ order = <<>>
    /\ pc = "idle"
    /\ cursor = 0
    /\ placed = FALSE
    /\ stalled = FALSE
    /\ source = <<>>
    /\ collapsed = FALSE
    /\ wordtokens = <<>>
    /\ converted = FALSE

\* the call has executed a statement and has not ended
UnderWay(t) == t # Call(t.data) /\ ~Stopped(t)

\* the caller i executes the next statement of its add_discourse
Step(i) ==
    /\ component = "add_discourse"
    /\ ~Stopped(threads.calls[i])
    /\ threads.serialized
        => \A j \in DOMAIN threads.calls :
                j # i => ~UnderWay(threads.calls[j])
    /\ \E r \in {add_discourse_step(Store, threads.calls[i])} :
          /\ context' = r.S.context
          /\ graph' = r.S.graph
          /\ sql' = [session |-> r.S.session, db |-> r.S.db]
          /\ threads' = [threads EXCEPT !.calls[i] = r.t]
    /\ UNCHANGED <<component, raised, attrVars, parseVars, data, orderVars,
                   collapseVars, discourseVars, addVars, variables, journal>>

ThreadsNext == \E i \in {1, 2} : Step(i)

SpecThreads == ThreadsInit /\ [][ThreadsNext]_vars

\* following the supertypes from the tier x ends at a tier without one
RECURSIVE Grounded(_, _, _)
Grounded(d, x, n) ==
    IF x = None THEN TRUE
    ELSE IF n = 0 \/ ~In(x, keys(d)) THEN FALSE
    ELSE Grounded(d, GetItem(d, x).supertype, n - 1)

\* the discourse has a cyclic or dangling supertype reference
HierarchyError(d) ==
    \E i \in 1..Len(d) : ~d[i].base /\ ~Grounded(d, d[i].name, Len(d))

\* C14 (as claimed): add_discourse called with a discourse that has a
\* cyclic or dangling supertype reference aborts, and before any store
\* mutation: no statement executed on the graph store, no row written to the
\* relational store, relationship_types, is_timed and hierarchy unchanged.
C14_HierarchyErrorAborts ==
    \A i \in DOMAIN threads.calls :
        (/\ HierarchyError(threads.calls[i].data.tiers)
         /\ threads.calls[i] # Call(threads.calls[i].data))
        => /\ threads.calls[i].pc = "raised"
           /\ (\A j \in DOMAIN threads.calls :
                    j # i => threads.calls[j] = Call(threads.calls[j].data))
              => Store = EmptyCorpus

\* the half of C14 that holds: the call has mutated no store
C14_NoMutation ==
    \A i \in DOMAIN threads.calls :
        (/\ HierarchyError(threads.calls[i].data.tiers)
         /\ \A j \in DOMAIN threads.calls :
                j # i => threads.calls[j] = Call(threads.calls[j].data))
        => Store = EmptyCorpus

\* the supertype the hierarchy gives the type x of the discourse d: the
\* output type of the supertype of its tier
SupertypeOf(d, x) ==
    LET at == IF x = WORD THEN GetItem(d, word_levels(d)[1])
              ELSE GetItem(d, x)
    IN IF x # WORD /\ at.supertype # None
          /\ GetItem(d, at.supertype).anchor
       THEN WORD ELSE at.supertype

\* the hierarchy mapping h describes the discourse d
Describes(h, d) ==
    /\ Len(h) = Len(output_types(d))
    /\ \A k \in 1..Len(h) :
        /\ In(h[k][1], output_types(d))
        /\ h[k][2] = SupertypeOf(d, h[k][1])
        /\ \A j \in 1..Len(h) : h[j][1] = h[k][1] => j = k

\* both calls have returned
BothDone == \A i \in DOMAIN threads.calls : threads.calls[i].pc = "done"

C17_SerializedWitness ==
    /\ threads.serialized
    /\ BothDone
    /\ threads.calls[1].data # threads.calls[2].data

(***************************************************************************)
(* Claims about the corpus variables                                       *)
(***************************************************************************)
\* the runs a..b of the journal that are successful calls of add_discourse
\* one after another, nothing between them
Runs ==
    {ab \in (1..Len(journal)) \X (1..Len(journal)) :
        /\ ab[1] <= ab[2]
        /\ \A e \in ab[1]..ab[2] :
            journal[e].op = "add_discourse" /\ journal[e].raised = "none"}

\* C18: after successful add_discourse calls with no reset_graph between
\* them relationship_types is what it was before them united with the
\* output_types of every discourse imported, while is_timed is the flag of
\* the last discourse alone and hierarchy has exactly the output_types of
\* the last discourse as keys; reset_graph empties relationship_types and
\* leaves is_timed and hierarchy as they are.
C18_UnionAndLast ==
    /\ \A ab \in Runs :
        LET last == journal[ab[2]]
        IN /\ last.after.context.relationship_types =
                journal[ab[1]].before.context.relationship_types
                \cup UNION {Range(output_types(journal[e].arg.tiers)) :
                                e \in ab[1]..ab[2]}
           /\ last.after.context.is_timed = is_timed(last.arg.tiers)
           /\ Describes(last.after.context.hierarchy, last.arg.tiers)
    /\ \A e \in 1..Len(journal) :
        journal[e].op = "reset_graph"
        => /\ journal[e].after.context.relationship_types = {}
           /\ journal[e].after.context.is_timed
                = journal[e].before.context.is_timed
           /\ journal[e].after.context.hierarchy
                = journal[e].before.context.hierarchy

\* a timed discourse, then an untimed one with another set of types, then
\* reset_graph: is_timed was overwritten to false, and the reset left a
\* hierarchy behind
C18_Witness ==
    \E e \in 3..Len(journal) :
        /\ <<e - 2, e - 1>> \in Runs
        /\ journal[e - 2].before.context.relationship_types = {}
        /\ is_timed(journal[e - 2].arg.tiers)
        /\ journal[e - 2].after.context.is_timed
        /\ ~journal[e - 1].after.context.is_timed
        /\ Range(output_types(journal[e - 2].arg.tiers))
            # Range(output_types(journal[e - 1].arg.tiers))
        /\ journal[e].op = "reset_graph"
        /\ journal[e].before.context.relationship_types # {}
        /\ journal[e].after.context.hierarchy # <<>>

Exits == {e \in 1..Len(journal) : journal[e].op = "exit"}

\* the last exit before the operation e of the journal, 0 when there is none
LastExit(e) ==
    IF \E x \in Exits : x < e
    THEN CHOOSE x \in Exits : x < e /\ \A y \in Exits : y < e => y <= x
    ELSE 0

\* C19: the variables are loaded on entry and written on every exit: an
\* entry restores the values held at the exit before it (the defaults when
\* there was none), the file holds the values held at the last exit, whether
\* that exit was normal or by an exception, and an exit by an exception
\* rolls the relational session back.
C19_VariablesPersisted ==
    /\ \A e \in 1..Len(journal) :
        journal[e].op = "enter"
        => journal[e].after.context =
                IF LastExit(e) = 0 THEN CorpusContext
                ELSE journal[LastExit(e)].before.context
    /\ LastExit(Len(journal) + 1) # 0
        => variables
            = save_variables(journal[LastExit(Len(journal) + 1)].before.context)
    /\ \A x \in Exits :
        journal[x].arg # None
        => /\ journal[x].after.session = journal[x].before.db
           /\ journal[x].after.db = journal[x].before.db

\* a session that imported a discourse ended by an exception: its rows were
\* rolled back, and the entry after it restored the variables the import had
\* changed
C19_Witness ==
    \E e \in 2..Len(journal) :
        /\ journal[e].op = "enter"
        /\ journal[e - 1].op = "exit"
        /\ journal[e - 1].arg # None
        /\ journal[e - 1].before.session.word # <<>>
        /\ journal[e - 1].after.session.word = <<>>
        /\ journal[e - 1].before.context.relationship_types # {}
        /\ journal[e].after.context = journal[e - 1].before.context

(***************************************************************************)
(* AnnotationType.add                                                      *)
(***************************************************************************)
MaxCalls == 4       \* calls of add on one AnnotationType

\* A mis-written add: every annotation is stored, whatever save is.
add_keeps_all(self, annotations, save) ==
    [characters |->
        self.characters
            \cup UNION {Range(annotations[i].label.v) :
                            i \in 1..Len(annotations)},
     list |-> self.list \o annotations]

\* add(annotations, save): the characters and the _list of the tier
\* afterwards; iterating an annotation yields the characters of its label
RECURSIVE add(_, _, _)
add(self, annotations, save) ==
    IF annotations = <<>> THEN self
    ELSE add([characters |->
                self.characters \cup Range(Head(annotations).label.v),
              list |->
                IF save \/ Len(self.list) < 10
                THEN Append(self.list, Head(annotations))
                ELSE self.list],
             Tail(annotations), save)

\* the labels passed to add, and how many annotations one call passes
AddLabels == {PyStr(<<"a", "b">>), PyStr(<<"c">>)}
BatchSizes == {1, 4}

AddInit ==
    /\ component = "add"
    /\ raised = "none"
    /\ added_tier = [characters |-> {}, list |-> <<>>]
    /\ passed = <<>>
    /\ CorpusIdle
    /\ AttrIdle
    /\ ParseIdle
    /\ data = <<>>
    /\ order = <<>>
    /\ pc = "idle"
    /\ cursor = 0
    /\ placed = FALSE
    /\ stalled = FALSE
    /\ source = <<>>
    /\ collapsed = FALSE
    /\ wordtokens = <<>>
    /\ converted = FALSE

\* tier.add(annotations, save); passed keeps the arguments of the call and
\* the _list before and after it
Add(annotations, save) ==
    /\ component = "add"
    /\ Len(passed) < MaxCalls
    /\ added_tier' = add(added_tier, annotations, save)
    /\ passed' = Append(passed,
                    [annotations |-> annotations, save |-> save,
                     before |-> added_tier.list,
                     after |-> added_tier'.list])
    /\ UNCHANGED <<component, raised, attrVars, parseVars, data, orderVars,
                   collapseVars, discourseVars, corpusVars>>

AddNext ==
    \E label \in AddLabels, n \in BatchSizes, save \in BOOLEAN :
        Add([i \in 1..n |-> BaseAnnotation(label, None, None)], save)

SpecAdd == AddInit /\ [][AddNext]_vars

\* the first n elements of a list
FirstOf(list, n) ==
    SubSeq(list, 1, IF n < 0 THEN 0 ELSE IF n > Len(list) THEN Len(list)
                    ELSE n)

\* C15: a call of add with save=false stores the annotations passed only up
\* to the tenth element of the stored sequence, which never grows beyond 10
\* through such a call; a call with save=true stores every annotation
\* passed; the character set holds every character of every label passed,
\* stored or not.
C15_PreviewKeepsTen ==
    /\ \A c \in 1..Len(passed) :
        IF passed[c].save
        THEN passed[c].after = passed[c].before \o passed[c].annotations
        ELSE /\ passed[c].after =
                    passed[c].before
                    \o FirstOf(passed[c].annotations,
                               10 - Len(passed[c].before))
             /\ Len(passed[c].after) > 10
                    => passed[c].after = passed[c].before
    /\ \A c \in 1..Len(passed) :
        \A i \in 1..Len(passed[c].annotations) :
            Range(passed[c].annotations[i].label.v)
                \subseteq added_tier.characters

\* a call with save=false cut off at the tenth element, and a later call
\* with save=false that stored nothing of a label whose character is in the
\* character set all the same
C15_Witness ==
    \E c, k \in 1..Len(passed) :
        /\ ~passed[c].save
        /\ Len(passed[c].before) < 10
        /\ Len(passed[c].after) = 10
        /\ Len(passed[c].before) + Len(passed[c].annotations) > 10
        /\ ~passed[k].save
        /\ passed[k].after = passed[k].before
        /\ \A i \in 1..Len(added_tier.list) :
                added_tier.list[i].label # PyStr(<<"c">>)
        /\ passed[k].annotations[1].label = PyStr(<<"c">>)
        /\ "c" \in added_tier.characters

(***************************************************************************)
(* Claims about the references collapse_speakers rewrites                  *)
(***************************************************************************)
\* the segments of the base tiers merged into N before the tier at position
\* h of the merge order ks: the accumulated length of the destination N
RECURSIVE Accumulated(_, _, _, _)
Accumulated(d, ks, h, N) ==
    IF h <= 1 THEN 0
    ELSE Accumulated(d, ks, h - 1, N)
            + (IF /\ GetItem(d, ks[h - 1]).base
                  /\ GetItem(d, ks[h - 1]).output_name = N
               THEN Len(GetItem(d, ks[h - 1]).list) ELSE 0)

\* C16 (as claimed): collapse_speakers rewrites every cross-reference key of
\* every annotation to the output_name of the tier it referenced and shifts
\* its interval by the accumulated length of that destination, for base and
\* non-base tiers alike; the accumulated length of a destination counts the
\* segments of the base source tiers appended before, and of no other tier.
C16_ReferencesRewritten ==
    (component = "collapse_speakers" /\ collapsed)
    => /\ raised = "none"
       /\ \A h \in 1..Len(collapse_keys(source)) :
            LET ks == collapse_keys(source)
                v == GetItem(source, ks[h])
                first == SumLen(source,
                            SelectSeq(SubSeq(ks, 1, h - 1),
                                LAMBDA k : GetItem(source, k).output_name
                                                = v.output_name))
            IN /\ In(v.output_name, keys(data))
               /\ \A j \in 1..Len(v.list) :
                    /\ first + j <= Len(GetItem(data, v.output_name).list)
                    /\ \A r \in 1..Len(v.list[j]) :
                        LET old == v.list[j][r]
                            new == GetItem(data, v.output_name)
                                        .list[first + j][r]
                        IN IF In(old[1], keys(source))
                           THEN LET N == GetItem(source, old[1]).output_name
                                IN /\ new[1] = N
                                   /\ new[2] = PyTuple(
                                        <<old[2].v[1]
                                            + Accumulated(source, ks, h, N),
                                          old[2].v[2]
                                            + Accumulated(source, ks, h, N)>>)
                           ELSE new = old

=============================================================================
